---- MODULE Spec2Model ----
(***************************************************************************)
(* Model of the configuration controller of the control UI                 *)
(* (ui/src/ui/controllers/config.ts): the path mutator (setPathValue,      *)
(* removePathValue, cloneConfigObject) and the config state operations     *)
(* built on it.                                                            *)
(*                                                                         *)
(* A JSON-like value is a record                                           *)
(*     [t |-> kind, a |-> payload, elems |-> sequence, props |-> mapping]  *)
(* with t one of "obj", "arr", "str", "num", "bool", "null", "undef" and   *)
(* "hole" (an empty slot of a sparse array).  elems holds the indexed      *)
(* elements of an array (index 0 of the code is position 1 here), props    *)
(* the string-keyed properties of an object, or of an array that was       *)
(* given named properties.                                                 *)
(***************************************************************************)
EXTENDS Integers, Sequences, FiniteSets, TLC

VARIABLES
  \* ConfigState (config.ts:21-48)
  client,               \* TRUE when state.client is not null
  connected,
  configLoading,
  configRaw,
  configValid,
  configIssues,
  configSaving,
  configSnapshot,
  configSchema,
  configSchemaVersion,
  configSchemaLoading,
  configUiHints,
  configForm,           \* reference into heap, NullRef when null
  configFormDirty,
  configFormMode,
  lastError,
  heap,                 \* the config trees, by reference
  inflight,             \* requests awaiting their response, oldest first
  telegramForm,         \* the channel projections
  discordForm,
  slackForm,
  signalForm,
  imessageForm,
  telegramConfigStatus,
  discordConfigStatus,
  slackConfigStatus,
  signalConfigStatus,
  imessageConfigStatus,
  \* the runtime around the state record
  hasStructuredClone,   \* whether the runtime provides structuredClone
  \* history
  prevForm,             \* the reference configForm held before the last patch
  nPatches,             \* number of patches applied so far
  last,                 \* the operation that ran last, with its arguments
  \* history, recorded in the specifications whose Init switches it on
  lateEdit,             \* the form value left by the last patch made since a
                        \*   save was sent and before that save was followed
                        \*   by another
  getOrder,             \* what became of the config.get sent last: "pending",
                        \*   "applied", "failed", or "overtaken" once an
                        \*   older request's response was applied after its own
  \* the path mutator on its own
  ptTree,    \* path mutator on its own: the tree handed to the operation
  ptPath,    \*   the path
  ptValue,   \*   the value (setPathValue only)
  ptOp,      \*   "none" before the call, then "set" or "remove"
  ptOut,     \*   the tree as the operation leaves it
  \* the schema normalizer on its own
  nzRaw,     \* the raw schema handed to analyzeConfigSchema
  nzOp,      \*   "none" before the call, then "analyze", then "reanalyze"
  nzOut,     \*   the analysis returned last
  nzFirst,   \*   the analysis of nzRaw, once its schema was analyzed again
  \* the form renderer, on the schema of an analysis
  rdValue,   \* the form value handed to renderConfigForm
  rdHints,   \*   the UI hints handed to it: the order given for a path key
  rdOut,     \*   what it puts on the page
  rdOrder,   \*   the order in which it puts the properties of each object
  rdEvent,   \* the last change the user made in a control, and the patch
             \*   the control handed to onPatch
  \* VoiceWakeOverlayController (part_000:7-26)
  model,          \* text, isFinal, isVisible, forwardEnabled, isSending,
                  \*   isEditing
  window,         \* TRUE when the panel has been made
  autoSendTask,   \* the task scheduleAutoSend made last, 0 when nil
  forwardConfig,  \* set (not nil) and enabled
  \* the runtime around the controller
  tasks,          \* the auto-send tasks: sleeping or ended, cancelled or not
  mainQueue,      \* the closures sendNow gave to asyncAfter, oldest first
  animations,     \* dismiss animations whose completion has not run yet
  \* history
  session,        \* how many transcripts have been shown so far
  forwards        \* the transcripts handed to the forwarder so far

ptVars == <<ptTree, ptPath, ptValue, ptOp, ptOut>>
nzVars == <<nzRaw, nzOp, nzOut, nzFirst>>
rdVars == <<rdValue, rdHints, rdOut, rdOrder, rdEvent>>
ovVars == <<model, window, autoSendTask, forwardConfig, tasks, mainQueue,
            animations, session, forwards>>
fnVars == <<ptVars, nzVars, rdVars, ovVars>>
connVars == <<client, connected>>
snapshotVars == <<configRaw, configValid, configIssues, configSnapshot>>
schemaVars == <<configSchema, configSchemaVersion, configUiHints>>
formVars == <<configForm, configFormDirty, nPatches>>
heapVars == <<heap, prevForm>>
flagVars == <<configLoading, configSaving, configSchemaLoading>>
channelForms ==
  <<telegramForm, discordForm, slackForm, signalForm, imessageForm>>
channelStatuses ==
  <<telegramConfigStatus, discordConfigStatus, slackConfigStatus,
    signalConfigStatus, imessageConfigStatus>>
projVars == <<channelForms, channelStatuses>>
ctlVars == <<connVars, snapshotVars, schemaVars, formVars, heapVars, flagVars,
             projVars, configFormMode, lastError, inflight, hasStructuredClone,
             lateEdit, getOrder,
             last>>
vars == <<ctlVars, fnVars>>

\* ------------------------------------------------------------------ bounds
MaxArr == 1        \* longest array among the generated input trees
MaxPathLen == 3    \* longest path handed to the path mutator
MaxInFlight == 2   \* most requests awaiting a response at once
MaxPatches == 2    \* most patches applied to the form in one run (FormSpec)
MaxEdits == 1      \* most patches applied while requests are under way (Spec)
MaxPending == 1    \* most requests awaiting a response at once (GateSpec)

Keys == {"a", "b"}
Indices == {0, 1}

\* ------------------------------------------------------------- JSON values
Mk(t, a, elems, props) == [t |-> t, a |-> a, elems |-> elems, props |-> props]

Str(s) == Mk("str", s, <<>>, <<>>)
Null == Mk("null", "", <<>>, <<>>)
Undef == Mk("undef", "", <<>>, <<>>)
Hole == Mk("hole", "", <<>>, <<>>)
Obj(props) == Mk("obj", "", <<>>, props)
Arr(elems) == Mk("arr", "", elems, <<>>)
EmptyObj == Obj(<<>>)
EmptyArr == Arr(<<>>)

\* a path segment: a string key or an integer index
K(s) == [num |-> FALSE, k |-> s, i |-> 0]
I(n) == [num |-> TRUE, k |-> "", i |-> n]

\* `x == null` of the code: null, undefined, and what reading a hole gives
IsNullish(n) == n.t \in {"null", "undef", "hole"}
\* Array.isArray(x)
IsArray(n) == n.t = "arr"
\* typeof x === "object" && x != null
IsObjectLike(n) == n.t \in {"obj", "arr"}

\* record[key]
PropGet(n, k) == IF k \in DOMAIN n.props THEN n.props[k] ELSE Undef
\* array[index]
ArrGet(n, i) ==
  IF (i + 1) \in DOMAIN n.elems /\ n.elems[i + 1].t # "hole"
  THEN n.elems[i + 1]
  ELSE Undef
\* current[key], for a segment of either kind
Child(n, seg) == IF seg.num THEN ArrGet(n, seg.i) ELSE PropGet(n, seg.k)

\* record[key] = v
PropSet(n, k, v) ==
  [n EXCEPT !.props = [x \in (DOMAIN n.props) \cup {k} |->
                         IF x = k THEN v ELSE n.props[x]]]
\* array[index] = v : an index past the end lengthens the array with holes
ArrSet(n, i, v) ==
  LET len == Len(n.elems)
      newLen == IF i + 1 > len THEN i + 1 ELSE len
  IN [n EXCEPT !.elems = [j \in 1..newLen |->
                            IF j = i + 1 THEN v
                            ELSE IF j <= len THEN n.elems[j] ELSE Hole]]
\* current[key] = v, for a segment of either kind
Put(n, seg, v) == IF seg.num THEN ArrSet(n, seg.i, v) ELSE PropSet(n, seg.k, v)

\* delete record[key]
PropDelete(n, k) ==
  [n EXCEPT !.props = [x \in (DOMAIN n.props) \ {k} |-> n.props[x]]]
\* Splice with the element after the one asked for removed
Splice_next(n, i) ==
  LET len == Len(n.elems)
  IN IF i + 2 > len THEN n
     ELSE [n EXCEPT !.elems = [j \in 1..(len - 1) |->
                                 IF j < i + 2 THEN n.elems[j]
                                 ELSE n.elems[j + 1]]]

\* array.splice(index, 1)
Splice(n, i) ==
  LET len == Len(n.elems)
  IN IF i + 1 > len THEN n
     ELSE [n EXCEPT !.elems = [j \in 1..(len - 1) |->
                                 IF j < i + 1 THEN n.elems[j]
                                 ELSE n.elems[j + 1]]]

\* ------------------------------------------------------------ path mutator
\* setPathWalk with a new container chosen after the segment that names it,
\* not after the segment that will index it
RECURSIVE setPathWalk_ownKey(_, _, _, _)
setPathWalk_ownKey(current, path, i, value) ==
  LET key == path[i]
  IN IF i < Len(path)
     THEN LET fresh == IF key.num THEN EmptyArr ELSE EmptyObj
              ok == IF key.num THEN IsArray(current) ELSE IsObjectLike(current)
              missing == IsNullish(Child(current, key))
              next == IF missing THEN fresh ELSE Child(current, key)
              created == IF missing THEN Put(current, key, fresh) ELSE current
          IN IF ~ok THEN current
             ELSE Put(created, key, setPathWalk_ownKey(next, path, i + 1, value))
     ELSE IF key.num
          THEN IF IsArray(current) THEN ArrSet(current, key.i, value) ELSE current
          ELSE IF IsObjectLike(current)
               THEN PropSet(current, key.k, value)
               ELSE current

\* The loop of setPathValue from position i on (`current` is the container
\* the walk has reached), then the store at the last segment.  The result is
\* `current` as the in-place writes leave it: a return in the middle of the
\* walk keeps the containers created before it.
RECURSIVE setPathWalk(_, _, _, _)
setPathWalk(current, path, i, value) ==
  LET key == path[i]
  IN IF i < Len(path)
     THEN LET nextKey == path[i + 1]
              fresh == IF nextKey.num THEN EmptyArr ELSE EmptyObj
              ok == IF key.num THEN IsArray(current) ELSE IsObjectLike(current)
              missing == IsNullish(Child(current, key))
              next == IF missing THEN fresh ELSE Child(current, key)
              created == IF missing THEN Put(current, key, fresh) ELSE current
          IN IF ~ok THEN current
             ELSE Put(created, key, setPathWalk(next, path, i + 1, value))
     ELSE IF key.num
          THEN IF IsArray(current) THEN ArrSet(current, key.i, value) ELSE current
          ELSE IF IsObjectLike(current)
               THEN PropSet(current, key.k, value)
               ELSE current

setPathValue(obj, path, value) ==
  IF Len(path) = 0 THEN obj ELSE setPathWalk(obj, path, 1, value)

\* removePathWalk that creates a missing container as setPathValue does
RECURSIVE removePathWalk_creates(_, _, _)
removePathWalk_creates(current, path, i) ==
  LET key == path[i]
  IN IF i < Len(path)
     THEN LET ok == IF key.num THEN IsArray(current) ELSE IsObjectLike(current)
              missing == IsNullish(Child(current, key))
              next == IF missing THEN EmptyObj ELSE Child(current, key)
          IN IF ~ok THEN current
             ELSE Put(current, key, removePathWalk_creates(next, path, i + 1))
     ELSE IF key.num
          THEN IF IsArray(current) THEN Splice(current, key.i) ELSE current
          ELSE IF IsObjectLike(current)
               THEN PropDelete(current, key.k)
               ELSE current

\* The loop of removePathValue from position i on, then the splice or the
\* delete at the last segment.
RECURSIVE removePathWalk(_, _, _)
removePathWalk(current, path, i) ==
  LET key == path[i]
  IN IF i < Len(path)
     THEN LET ok == IF key.num THEN IsArray(current) ELSE IsObjectLike(current)
              next == Child(current, key)
          IN IF ~ok THEN current
             ELSE IF IsNullish(next) THEN current
             ELSE Put(current, key, removePathWalk(next, path, i + 1))
     ELSE IF key.num
          THEN IF IsArray(current) THEN Splice(current, key.i) ELSE current
          ELSE IF IsObjectLike(current)
               THEN PropDelete(current, key.k)
               ELSE current

removePathValue(obj, path) ==
  IF Len(path) = 0 THEN obj ELSE removePathWalk(obj, path, 1)

\* ------------------------------------------------------- text and cloning
Bool(b) == Mk("bool", IF b THEN "true" ELSE "false", <<>>, <<>>)

\* The value that JSON.stringify writes for n, which is also what JSON.parse
\* reads back: a key whose value is undefined is left out, an undefined or
\* empty array slot becomes null, named properties of an array are left out.
RECURSIVE JsonOf(_)
JsonOf(n) ==
  IF n.t = "obj"
  THEN Obj([k \in {x \in DOMAIN n.props : n.props[x].t # "undef"} |->
              JsonOf(n.props[k])])
  ELSE IF n.t = "arr"
  THEN Arr([j \in 1..Len(n.elems) |->
              IF n.elems[j].t \in {"undef", "hole"} THEN Null
              ELSE JsonOf(n.elems[j])])
  ELSE n

\* `${JSON.stringify(value, null, 2).trimEnd()}\n`: a string, kept as the
\* JSON value it spells
JsonText(n) == Mk("str", "json", <<JsonOf(n)>>, <<>>)

\* JSON.parse(text) of a text that spells a JSON value
JsonParse(text) == text.elems[1]

\* the tree that cloneConfigObject builds from tree n: structuredClone keeps
\* everything, the JSON round trip keeps what JSON can spell
CloneTree(n) == IF hasStructuredClone THEN n ELSE JsonOf(n)

\* ------------------------------------------------------------------- heap
\* Objects are held by reference.  A reference is a number; NullRef is null.
NullRef == 0
FreshRef(h) == CHOOSE r \in 1..(Cardinality(DOMAIN h) + 1) : r \notin DOMAIN h
\* a new object on the heap
Alloc(h, tree) ==
  LET r == FreshRef(h) IN [heap |-> (r :> tree) @@ h, ref |-> r]

\* cloneConfigObject that hands back its argument
cloneConfigObject_alias(h, ref) == [heap |-> h, ref |-> ref]

\* cloneConfigObject(value): a new object, never the argument itself
cloneConfigObject(h, ref) == Alloc(h, CloneTree(h[ref]))

\* References are opaque, so the objects still referred to are renamed after
\* their holders: 1 for the snapshot's config, 2 for the form value, 3 for
\* the form value of before the last patch; two holders of one object keep
\* one name.  Objects nothing refers to are dropped.
NameOfSnapshot(s) == IF s = NullRef THEN NullRef ELSE 1
NameOfForm(s, f) == IF f = NullRef THEN NullRef ELSE IF f = s THEN 1 ELSE 2
NameOfPrev(s, f, p) ==
  IF p = NullRef THEN NullRef
  ELSE IF p = s THEN 1
  ELSE IF p = f THEN 2
  ELSE 3
Renamed(h, s, f, p) ==
  LET old == [n \in 1..3 |->
                IF n = NameOfSnapshot(s) THEN s
                ELSE IF n = NameOfForm(s, f) THEN f
                ELSE p]
      used == {NameOfSnapshot(s), NameOfForm(s, f), NameOfPrev(s, f, p)}
                \ {NullRef}
  IN [n \in used |-> h[old[n]]]

\* the holders keep the objects h, named s, f and p before renaming
Hold(h, s, f, p) ==
  /\ heap' = Renamed(h, s, f, p)
  /\ configForm' = NameOfForm(s, f)
  /\ prevForm' = NameOfPrev(s, f, p)

\* The reference to the form value of before a patch is dropped by whoever
\* held it once anything else has run; nothing else changes on the heap.
ReleasePrev ==
  /\ prevForm' = NullRef
  /\ heap' = [n \in (DOMAIN heap) \ ({prevForm} \ {configForm, configSnapshot.config})
                |-> heap[n]]

\* --------------------------------------------------------------- transport
NoSnapshot ==
  [present |-> FALSE, config |-> NullRef, raw |-> Undef, valid |-> Undef,
   issues |-> Undef]

\* what config.get may answer: config, raw, valid and issues, each possibly
\* missing (Undef)
SnapshotResponses ==
  { [config |-> EmptyObj, raw |-> Str("{}"), valid |-> Bool(TRUE),
     issues |-> EmptyArr],
    [config |-> Obj("a" :> Str("x") @@ "b" :> Arr(<<Str("x")>>)
                    @@ "slack" :> Obj([botToken |-> Str("xoxb")])),
     raw |-> Undef, valid |-> Bool(FALSE), issues |-> Arr(<<Str("issue")>>)],
    [config |-> Undef, raw |-> Undef, valid |-> Undef, issues |-> Undef] }

\* what config.schema may answer
SchemaResponses ==
  { [schema |-> Str("schema"), uiHints |-> Obj("a" :> Str("hint")),
     version |-> Str("v1")],
    [schema |-> Undef, uiHints |-> Undef, version |-> Undef] }

Request(method, viaSave, raw) ==
  [method |-> method, viaSave |-> viaSave, raw |-> raw]

RemoveAt(seq, i) == SubSeq(seq, 1, i - 1) \o SubSeq(seq, i + 1, Len(seq))

\* the operation that ran last: its name and, for a patch, its arguments
Op(name) == [op |-> name, path |-> <<>>, value |-> Undef]
PatchOp(name, path, value) == [op |-> name, path |-> path, value |-> value]

NoError == "null"
ErrorText == "Error: request failed"
\* String(err) of the error that reading a field of null or undefined raises
TypeErrorText == "TypeError: Cannot read properties of undefined"

\* ------------------------------------------------------ channel projections
\* a JSON number, kept as the decimal text that String(number) gives
Num(s) == Mk("num", s, <<>>, <<>>)

\* value ?? {}
OrEmptyObj(v) == IF IsNullish(v) THEN EmptyObj ELSE v
\* value && typeof value === "object" ? value : {}
ObjectOrEmpty(v) == IF IsObjectLike(v) THEN v ELSE EmptyObj
\* typeof value === "string" ? value : ""
StringOrEmpty(v) == IF v.t = "str" THEN v ELSE Str("")
\* typeof value === "boolean" ? value : fallback
BooleanOr(v, fallback) == IF v.t = "bool" THEN v ELSE fallback
\* typeof value === "number" ? String(value) : ""
NumberText(v) == IF v.t = "num" THEN Str(v.a) ELSE Str("")
\* value === one of the allowed literals ? value : fallback
ChoiceOr(v, allowed, fallback) ==
  IF v.t = "str" /\ v.a \in allowed THEN v ELSE Str(fallback)

\* String.prototype.trim over the texts that occur with blanks around them
Trim(s) ==
  IF s = " x " THEN "x" ELSE IF s = " " THEN "" ELSE s

RECURSIVE JoinTexts(_, _)
\* Array.prototype.join(sep) of a sequence of texts
JoinTexts(texts, sep) ==
  IF texts = <<>> THEN ""
  ELSE IF Len(texts) = 1 THEN texts[1]
  ELSE texts[1] \o sep \o JoinTexts(Tail(texts), sep)

RECURSIVE StringOf(_)
\* String(value): an array gives its elements joined by ",", null and
\* undefined elements giving nothing
StringOf(v) ==
  IF v.t \in {"str", "num", "bool"} THEN v.a
  ELSE IF v.t = "null" THEN "null"
  ELSE IF v.t \in {"undef", "hole"} THEN "undefined"
  ELSE IF v.t = "obj" THEN "[object Object]"
  ELSE JoinTexts([j \in 1..Len(v.elems) |->
                    IF IsNullish(v.elems[j]) THEN "" ELSE StringOf(v.elems[j])],
                 ",")

\* the elements of an array that map and filter visit: empty slots are skipped
Visited(elems) == SelectSeq(elems, LAMBDA e : e.t # "hole")

\* toList (lines 106-112): the trimmed, non-empty element texts joined by ", "
toList(value) ==
  IF IsArray(value)
  THEN LET shown == [j \in 1..Len(Visited(value.elems)) |->
                       LET v == Visited(value.elems)[j]
                       IN Trim(StringOf(IF IsNullish(v) THEN Str("") ELSE v))]
       IN Str(JoinTexts(SelectSeq(shown, LAMBDA s : s # ""), ", "))
  ELSE Str("")

\* The keys a config may use in the maps the projections list (discord
\* guilds, their channels, slack channels), in the order the config spells
\* them; Object.entries keeps that order.
EntryKeyOrder == <<"g1", "c1", "c2">>
\* the text of an array index
IndexText == <<"0", "1", "2">>

\* Object.entries(value): the indexed elements first (an array is an object
\* too), then the named properties
Entries(n) ==
  LET indexed == SelectSeq([j \in 1..Len(n.elems) |->
                              [key |-> IndexText[j], value |-> n.elems[j]]],
                           LAMBDA e : e.value.t # "hole")
      named == SelectSeq(EntryKeyOrder, LAMBDA k : k \in DOMAIN n.props)
  IN indexed \o [j \in 1..Len(named) |->
                   [key |-> named[j], value |-> n.props[named[j]]]]

\* defaultDiscordActions and defaultSlackActions of ui-types: one boolean
\* per action, whose values are set outside these sources
DefaultFlag == Mk("bool", "default", <<>>, <<>>)
DiscordActionKeys ==
  {"reactions", "stickers", "polls", "permissions", "messages", "threads",
   "pins", "search", "memberInfo", "roleInfo", "channelInfo", "voiceStatus",
   "events", "roles", "moderation"}
SlackActionKeys == {"reactions", "messages", "pins", "memberInfo", "emojiList"}
defaultDiscordActions == [k \in DiscordActionKeys |-> DefaultFlag]
defaultSlackActions == [k \in SlackActionKeys |-> DefaultFlag]

\* A projection as the state holds it: the same tree, each node written as
\* <<kind, content>> (the text of a scalar, the fields of a record, the
\* elements of a list).
RECURSIVE FormValue(_)
FormValue(n) ==
  IF n.t = "obj" THEN <<"obj", [k \in DOMAIN n.props |-> FormValue(n.props[k])]>>
  ELSE IF n.t = "arr"
  THEN <<"arr", [j \in 1..Len(n.elems) |-> FormValue(n.elems[j])]>>
  ELSE <<n.t, n.a>>

\* the forms a new state starts with
baseTelegramForm ==
  Obj([token |-> Str(""), requireMention |-> Bool(TRUE), allowFrom |-> Str(""),
       proxy |-> Str(""), webhookUrl |-> Str(""), webhookSecret |-> Str(""),
       webhookPath |-> Str("")])

baseDiscordForm ==
  Obj([enabled |-> Bool(TRUE), token |-> Str(""), dmEnabled |-> Bool(TRUE),
       allowFrom |-> Str(""), groupEnabled |-> Bool(FALSE),
       groupChannels |-> Str(""), mediaMaxMb |-> Str(""),
       historyLimit |-> Str(""), textChunkLimit |-> Str(""),
       replyToMode |-> Str("off"), guilds |-> EmptyArr,
       actions |-> Obj(defaultDiscordActions), slashEnabled |-> Bool(FALSE),
       slashName |-> Str(""), slashSessionPrefix |-> Str(""),
       slashEphemeral |-> Bool(TRUE)])

baseSlackForm ==
  Obj([enabled |-> Bool(TRUE), botToken |-> Str(""), appToken |-> Str(""),
       dmEnabled |-> Bool(TRUE), allowFrom |-> Str(""),
       groupEnabled |-> Bool(FALSE), groupChannels |-> Str(""),
       mediaMaxMb |-> Str(""), textChunkLimit |-> Str(""),
       reactionNotifications |-> Str("own"), reactionAllowlist |-> Str(""),
       slashEnabled |-> Bool(FALSE), slashName |-> Str(""),
       slashSessionPrefix |-> Str(""), slashEphemeral |-> Bool(TRUE),
       actions |-> Obj(defaultSlackActions), channels |-> EmptyArr])

baseSignalForm ==
  Obj([enabled |-> Bool(TRUE), account |-> Str(""), httpUrl |-> Str(""),
       httpHost |-> Str(""), httpPort |-> Str(""), cliPath |-> Str(""),
       autoStart |-> Bool(TRUE), receiveMode |-> Str(""),
       ignoreAttachments |-> Bool(FALSE), ignoreStories |-> Bool(FALSE),
       sendReadReceipts |-> Bool(FALSE), allowFrom |-> Str(""),
       mediaMaxMb |-> Str("")])

baseIMessageForm ==
  Obj([enabled |-> Bool(TRUE), cliPath |-> Str(""), dbPath |-> Str(""),
       service |-> Str("auto"), region |-> Str(""), allowFrom |-> Str(""),
       includeAttachments |-> Bool(FALSE), mediaMaxMb |-> Str("")])

\* (config.<name> ?? {}), lines 101-105
SectionOf(config, name) == OrEmptyObj(PropGet(config, name))

\* lines 113-139
TelegramFormOf(config) ==
  LET telegram == SectionOf(config, "telegram")
      telegramGroups == ObjectOrEmpty(PropGet(telegram, "groups"))
      telegramDefaultGroup == ObjectOrEmpty(PropGet(telegramGroups, "*"))
      from == PropGet(telegram, "allowFrom")
      allowFrom == IF IsArray(from) THEN toList(from)
                   ELSE IF from.t = "str" THEN from ELSE Str("")
  IN Obj([token |-> StringOrEmpty(PropGet(telegram, "botToken")),
          requireMention |->
            BooleanOr(PropGet(telegramDefaultGroup, "requireMention"),
                      Bool(TRUE)),
          allowFrom |-> allowFrom,
          proxy |-> StringOrEmpty(PropGet(telegram, "proxy")),
          webhookUrl |-> StringOrEmpty(PropGet(telegram, "webhookUrl")),
          webhookSecret |-> StringOrEmpty(PropGet(telegram, "webhookSecret")),
          webhookPath |-> StringOrEmpty(PropGet(telegram, "webhookPath"))])

\* lines 182-198: one channel of a discord guild
DiscordGuildChannelFormOf(e) ==
  LET channel == ObjectOrEmpty(e.value)
  IN Obj([key |-> Str(e.key),
          allow |-> BooleanOr(PropGet(channel, "allow"), Bool(TRUE)),
          requireMention |->
            BooleanOr(PropGet(channel, "requireMention"), Bool(FALSE))])

\* lines 173-216: one discord guild
DiscordGuildFormOf(e) ==
  LET entry == ObjectOrEmpty(e.value)
      channelsRaw == ObjectOrEmpty(PropGet(entry, "channels"))
      found == Entries(channelsRaw)
  IN Obj([key |-> Str(e.key),
          slug |-> StringOrEmpty(PropGet(entry, "slug")),
          requireMention |->
            BooleanOr(PropGet(entry, "requireMention"), Bool(FALSE)),
          reactionNotifications |->
            ChoiceOr(PropGet(entry, "reactionNotifications"),
                     {"off", "all", "own", "allowlist"}, "own"),
          users |-> toList(PropGet(entry, "users")),
          channels |->
            Arr([j \in 1..Len(found) |-> DiscordGuildChannelFormOf(found[j])])])

\* lines 141-242
DiscordFormOf(config) ==
  LET discord == SectionOf(config, "discord")
      discordDm == OrEmptyObj(PropGet(discord, "dm"))
      slash == OrEmptyObj(PropGet(discord, "slashCommand"))
      discordActions == OrEmptyObj(PropGet(discord, "actions"))
      discordGuilds == PropGet(discord, "guilds")
      found == IF IsArray(discordGuilds) THEN <<>>
               ELSE IF IsObjectLike(discordGuilds) THEN Entries(discordGuilds)
               ELSE <<>>
      readAction(key) ==
        BooleanOr(PropGet(discordActions, key), defaultDiscordActions[key])
  IN Obj([enabled |-> BooleanOr(PropGet(discord, "enabled"), Bool(TRUE)),
          token |-> StringOrEmpty(PropGet(discord, "token")),
          dmEnabled |-> BooleanOr(PropGet(discordDm, "enabled"), Bool(TRUE)),
          allowFrom |-> toList(PropGet(discordDm, "allowFrom")),
          groupEnabled |->
            BooleanOr(PropGet(discordDm, "groupEnabled"), Bool(FALSE)),
          groupChannels |-> toList(PropGet(discordDm, "groupChannels")),
          mediaMaxMb |-> NumberText(PropGet(discord, "mediaMaxMb")),
          historyLimit |-> NumberText(PropGet(discord, "historyLimit")),
          textChunkLimit |-> NumberText(PropGet(discord, "textChunkLimit")),
          replyToMode |->
            ChoiceOr(PropGet(discord, "replyToMode"), {"first", "all"}, "off"),
          guilds |-> Arr([j \in 1..Len(found) |-> DiscordGuildFormOf(found[j])]),
          actions |-> Obj([key \in DiscordActionKeys |-> readAction(key)]),
          slashEnabled |-> BooleanOr(PropGet(slash, "enabled"), Bool(FALSE)),
          slashName |-> StringOrEmpty(PropGet(slash, "name")),
          slashSessionPrefix |-> StringOrEmpty(PropGet(slash, "sessionPrefix")),
          slashEphemeral |-> BooleanOr(PropGet(slash, "ephemeral"), Bool(TRUE))])

\* lines 307-321: one slack channel
SlackChannelFormOf(e) ==
  LET entry == ObjectOrEmpty(e.value)
  IN Obj([key |-> Str(e.key),
          allow |-> BooleanOr(PropGet(entry, "allow"), Bool(TRUE)),
          requireMention |->
            BooleanOr(PropGet(entry, "requireMention"), Bool(FALSE))])

\* lines 244-324
SlackFormOf(config) ==
  LET slack == SectionOf(config, "slack")
      slackDm == OrEmptyObj(PropGet(slack, "dm"))
      slackChannels == PropGet(slack, "channels")
      slackSlash == OrEmptyObj(PropGet(slack, "slashCommand"))
      slackActions == OrEmptyObj(PropGet(slack, "actions"))
      found == IF IsArray(slackChannels) THEN <<>>
               ELSE IF IsObjectLike(slackChannels) THEN Entries(slackChannels)
               ELSE <<>>
  IN Obj([enabled |-> BooleanOr(PropGet(slack, "enabled"), Bool(TRUE)),
          botToken |-> StringOrEmpty(PropGet(slack, "botToken")),
          appToken |-> StringOrEmpty(PropGet(slack, "appToken")),
          dmEnabled |-> BooleanOr(PropGet(slackDm, "enabled"), Bool(TRUE)),
          allowFrom |-> toList(PropGet(slackDm, "allowFrom")),
          groupEnabled |->
            BooleanOr(PropGet(slackDm, "groupEnabled"), Bool(FALSE)),
          groupChannels |-> toList(PropGet(slackDm, "groupChannels")),
          mediaMaxMb |-> NumberText(PropGet(slack, "mediaMaxMb")),
          textChunkLimit |-> NumberText(PropGet(slack, "textChunkLimit")),
          reactionNotifications |->
            ChoiceOr(PropGet(slack, "reactionNotifications"),
                     {"off", "all", "allowlist"}, "own"),
          reactionAllowlist |-> toList(PropGet(slack, "reactionAllowlist")),
          slashEnabled |-> BooleanOr(PropGet(slackSlash, "enabled"), Bool(FALSE)),
          slashName |-> StringOrEmpty(PropGet(slackSlash, "name")),
          slashSessionPrefix |->
            StringOrEmpty(PropGet(slackSlash, "sessionPrefix")),
          slashEphemeral |->
            BooleanOr(PropGet(slackSlash, "ephemeral"), Bool(TRUE)),
          actions |->
            Obj([key \in DOMAIN defaultSlackActions \cup SlackActionKeys |->
                   IF key \in SlackActionKeys
                   THEN BooleanOr(PropGet(slackActions, key),
                                  defaultSlackActions[key])
                   ELSE defaultSlackActions[key]]),
          channels |-> Arr([j \in 1..Len(found) |-> SlackChannelFormOf(found[j])])])

\* lines 326-347
SignalFormOf(config) ==
  LET signal == SectionOf(config, "signal")
  IN Obj([enabled |-> BooleanOr(PropGet(signal, "enabled"), Bool(TRUE)),
          account |-> StringOrEmpty(PropGet(signal, "account")),
          httpUrl |-> StringOrEmpty(PropGet(signal, "httpUrl")),
          httpHost |-> StringOrEmpty(PropGet(signal, "httpHost")),
          httpPort |-> NumberText(PropGet(signal, "httpPort")),
          cliPath |-> StringOrEmpty(PropGet(signal, "cliPath")),
          autoStart |-> BooleanOr(PropGet(signal, "autoStart"), Bool(TRUE)),
          receiveMode |->
            ChoiceOr(PropGet(signal, "receiveMode"), {"on-start", "manual"}, ""),
          ignoreAttachments |->
            BooleanOr(PropGet(signal, "ignoreAttachments"), Bool(FALSE)),
          ignoreStories |->
            BooleanOr(PropGet(signal, "ignoreStories"), Bool(FALSE)),
          sendReadReceipts |->
            BooleanOr(PropGet(signal, "sendReadReceipts"), Bool(FALSE)),
          allowFrom |-> toList(PropGet(signal, "allowFrom")),
          mediaMaxMb |-> NumberText(PropGet(signal, "mediaMaxMb"))])

\* lines 349-367
IMessageFormOf(config) ==
  LET imessage == SectionOf(config, "imessage")
  IN Obj([enabled |-> BooleanOr(PropGet(imessage, "enabled"), Bool(TRUE)),
          cliPath |-> StringOrEmpty(PropGet(imessage, "cliPath")),
          dbPath |-> StringOrEmpty(PropGet(imessage, "dbPath")),
          service |->
            ChoiceOr(PropGet(imessage, "service"), {"imessage", "sms", "auto"},
                     "auto"),
          region |-> StringOrEmpty(PropGet(imessage, "region")),
          allowFrom |-> toList(PropGet(imessage, "allowFrom")),
          includeAttachments |->
            BooleanOr(PropGet(imessage, "includeAttachments"), Bool(FALSE)),
          mediaMaxMb |-> NumberText(PropGet(imessage, "mediaMaxMb"))])

\* the sections in the order in which their fields are read
SectionNames == <<"telegram", "discord", "slack", "signal", "imessage">>

\* Reading a field of null or undefined raises a TypeError.  The first k
\* forms are assigned when the sections they read are neither.
Reached(config, k) ==
  \A j \in 1..k : ~IsNullish(SectionOf(config, SectionNames[j]))

\* snapshot.valid === false ? "Config invalid." : null (line 369)
ConfigStatusOf(valid) ==
  IF valid = Bool(FALSE) THEN Str("Config invalid.") ELSE Null

\* ------------------------------------------------ configs to be projected
SectionKinds == {"absent", "null", "scalar", "array", "malformed", "odd", "full"}

\* a direct-message block, and a slash-command block, with every field set
FullDm ==
  Obj([enabled |-> Bool(FALSE), allowFrom |-> Arr(<<Str(" x "), Null, Num("5")>>),
       groupEnabled |-> Bool(TRUE), groupChannels |-> Arr(<<Str("c")>>)])
FullSlash ==
  Obj([enabled |-> Bool(TRUE), name |-> Str("n"), sessionPrefix |-> Str("p"),
       ephemeral |-> Bool(FALSE)])

\* the section `name` with every field present and of the expected type
FullSection(name) ==
  CASE name = "telegram" ->
         Obj([botToken |-> Str("tok"),
              groups |-> Obj("*" :> Obj([requireMention |-> Bool(FALSE)])),
              allowFrom |-> Arr(<<Str(" x "), Null, Num("5"), Str(" ")>>),
              proxy |-> Str("p"), webhookUrl |-> Str("u"),
              webhookSecret |-> Str("s"), webhookPath |-> Str("/h")])
    [] name = "discord" ->
         Obj([enabled |-> Bool(FALSE), token |-> Str("tok"), dm |-> FullDm,
              mediaMaxMb |-> Num("8"), historyLimit |-> Num("20"),
              textChunkLimit |-> Num("2000"), replyToMode |-> Str("first"),
              guilds |->
                Obj("g1" :> Obj([slug |-> Str("s"), requireMention |-> Bool(TRUE),
                                 reactionNotifications |-> Str("all"),
                                 users |-> Arr(<<Str("u"), Str("w")>>),
                                 channels |->
                                   Obj("c1" :> Obj([allow |-> Bool(FALSE),
                                                    requireMention |-> Bool(TRUE)])
                                       @@ "c2" :> EmptyObj)])),
              actions |-> Obj([reactions |-> Bool(FALSE), roles |-> Bool(TRUE)]),
              slashCommand |-> FullSlash])
    [] name = "slack" ->
         Obj([enabled |-> Bool(FALSE), botToken |-> Str("xoxb"),
              appToken |-> Str("xapp"), dm |-> FullDm, mediaMaxMb |-> Num("8"),
              textChunkLimit |-> Num("2000"),
              reactionNotifications |-> Str("allowlist"),
              reactionAllowlist |-> Arr(<<Str("u")>>),
              slashCommand |-> FullSlash,
              actions |-> Obj([reactions |-> Bool(FALSE), emojiList |-> Bool(TRUE)]),
              channels |->
                Obj("c1" :> Obj([allow |-> Bool(FALSE),
                                 requireMention |-> Bool(TRUE)])
                    @@ "c2" :> EmptyObj)])
    [] name = "signal" ->
         Obj([enabled |-> Bool(FALSE), account |-> Str("+1"),
              httpUrl |-> Str("u"), httpHost |-> Str("h"),
              httpPort |-> Num("8080"), cliPath |-> Str("/s"),
              autoStart |-> Bool(FALSE), receiveMode |-> Str("manual"),
              ignoreAttachments |-> Bool(TRUE), ignoreStories |-> Bool(TRUE),
              sendReadReceipts |-> Bool(TRUE), allowFrom |-> Arr(<<Str("u")>>),
              mediaMaxMb |-> Num("8")])
    [] OTHER ->
         Obj([enabled |-> Bool(FALSE), cliPath |-> Str("/i"), dbPath |-> Str("/d"),
              service |-> Str("sms"), region |-> Str("US"),
              allowFrom |-> Arr(<<Str("u")>>), includeAttachments |-> Bool(TRUE),
              mediaMaxMb |-> Num("8")])

\* a value of a type that no field of the expected type t accepts
WrongFor(t) ==
  CASE t = "str" -> Num("5")
    [] t = "bool" -> Str("yes")
    [] t = "num" -> Str("8")
    [] t = "arr" -> Str("u")
    [] OTHER -> Str("x")

\* the section `name` with every field present and of a wrong type
\* (telegram.allowFrom may be a list or a text, lines 121-125)
MalformedSection(name) ==
  LET full == FullSection(name)
  IN Obj([k \in DOMAIN full.props |->
            IF name = "telegram" /\ k = "allowFrom" THEN Num("5")
            ELSE WrongFor(full.props[k].t)])

\* a section whose maps hold entries of unexpected shapes
OddSection(name) ==
  CASE name = "discord" ->
         Obj([guilds |->
                Obj("g1" :> Obj([channels |-> Arr(<<Str("x"),
                                                    Obj([allow |-> Bool(FALSE)])>>),
                                 users |-> Str("u"),
                                 reactionNotifications |-> Str("sometimes")])
                    @@ "c1" :> Num("5")),
              dm |-> Null, actions |-> Arr(<<Bool(FALSE)>>),
              replyToMode |-> Str("sometimes")])
    [] name = "slack" ->
         Obj([channels |-> Arr(<<Obj([allow |-> Bool(FALSE)])>>),
              dm |-> Obj([allowFrom |-> Arr(<<Arr(<<Str("a"), Null>>), EmptyObj,
                                               Bool(TRUE)>>)]),
              actions |-> Obj([pins |-> Null, messages |-> Bool(FALSE)]),
              reactionNotifications |-> Str("own")])
    [] name = "telegram" ->
         Obj([allowFrom |-> Str("a, b"), groups |-> Obj("*" :> Str("x"))])
    [] OTHER -> Obj([allowFrom |-> Arr(<<Hole, Str(" x ")>>)])

SectionValue(name, kind) ==
  CASE kind = "null" -> Null
    [] kind = "scalar" -> Str("x")
    [] kind = "array" -> Arr(<<Str("x")>>)
    [] kind = "malformed" -> MalformedSection(name)
    [] kind = "odd" -> OddSection(name)
    [] kind = "full" -> FullSection(name)
    [] OTHER -> Undef

Sections == {SectionNames[j] : j \in 1..Len(SectionNames)}

\* the config whose sections are of the kinds that kindOf names, an absent
\* section being left out
ConfigOf(kindOf) ==
  Obj([name \in {n \in Sections : kindOf[n] # "absent"} |->
         SectionValue(name, kindOf[name])])

\* every section of one kind, or one of the first three sections of some
\* kind and the others absent
ProjConfigs ==
  {ConfigOf([n \in Sections |-> kind]) : kind \in SectionKinds}
  \cup {ConfigOf([n \in Sections |-> IF n = name THEN kind ELSE "absent"]) :
          name \in {"telegram", "discord", "slack"}, kind \in SectionKinds}

\* what applyConfigSnapshot is handed directly: a snapshot with one of these
\* configs, or with none
ProjResponses ==
  {[config |-> c, raw |-> Undef, valid |-> Bool(TRUE), issues |-> Undef] :
     c \in ProjConfigs \cup {Undef}}
  \cup {[config |-> c, raw |-> Undef, valid |-> Bool(FALSE), issues |-> Undef] :
          c \in {ConfigOf([name \in Sections |-> "full"]), Undef}}

\* ------------------------------------------------------ schema normalizer
\* whether a value counts as true in a condition
Truthy(v) ==
  CASE v.t \in {"null", "undef", "hole"} -> FALSE
    [] v.t = "bool" -> v.a = "true"
    [] v.t = "str" -> v.a # ""
    [] v.t = "num" -> v.a \notin {"0", "NaN"}
    [] OTHER -> TRUE

\* { ...value }: the own properties, those of an array being its indices
Spread(n) ==
  IF n.t = "obj" THEN n
  ELSE IF n.t = "arr"
  THEN Obj([k \in {IndexText[j] : j \in {i \in 1..Len(n.elems) :
                                            n.elems[i].t # "hole"}} |->
              n.elems[CHOOSE j \in 1..Len(n.elems) : IndexText[j] = k]])
  ELSE EmptyObj

\* the property names schemas use, in the order the schemas spell them
PropertyOrder == <<"mixed", "mode", "list", "map">>

\* Object.entries of a properties record
SchemaEntries(n) ==
  LET named == SelectSeq(PropertyOrder, LAMBDA k : k \in DOMAIN n.props)
  IN [j \in 1..Len(named) |-> [key |-> named[j], value |-> n.props[named[j]]]]

RECURSIVE Flatten(_)
\* the sequences of a sequence, one after the other
Flatten(seqs) == IF seqs = <<>> THEN <<>> ELSE Head(seqs) \o Flatten(Tail(seqs))

\* Unique that keeps every occurrence
Unique_keepsAll(values) == values

RECURSIVE Unique(_)
\* the first occurrence of every value (Object.is over scalars is equality)
Unique(values) ==
  IF values = <<>> THEN <<>>
  ELSE LET front == Unique(SubSeq(values, 1, Len(values) - 1))
           v == values[Len(values)]
       IN IF \E j \in 1..Len(front) : front[j] = v THEN front
          ELSE Append(front, v)

\* schemaType(schema), part_002:263-270
schemaType(schema) ==
  IF ~Truthy(schema) THEN Undef
  ELSE LET type == PropGet(schema, "type")
       IN IF IsArray(type)
          THEN LET filtered == SelectSeq(Visited(type.elems),
                                         LAMBDA t : t # Str("null"))
               IN IF filtered # <<>> /\ ~IsNullish(filtered[1]) THEN filtered[1]
                  ELSE ArrGet(type, 0)
          ELSE type

\* pathKey(path), part_002:298-300, over paths of names
pathKey(path) == JoinTexts(path, ".")

\* pathKey(path) || "<root>"
pathLabel(path) == IF pathKey(path) = "" THEN "<root>" ELSE pathKey(path)

\* normalizeEnumValues(values), part_002:579-587, values being the elements
\* of the array
normalizeEnumValues(values) ==
  LET filtered == SelectSeq(Visited(values), LAMBDA v : ~IsNullish(v))
  IN [enumValues |-> Unique(filtered),
      nullable |-> Len(filtered) # Len(values)]

\* the result of a normalization, and the null that normalizeUnion returns
\* when it gives up
\* Analysis that reports nothing as unsupported
Analysis_reportsNothing(schema, unsupportedPaths) ==
  [found |-> TRUE, schema |-> schema, unsupportedPaths |-> <<>>]
Analysis(schema, unsupportedPaths) ==
  [found |-> TRUE, schema |-> schema, unsupportedPaths |-> unsupportedPaths]
\* NoAnalysis taken for a result: no schema and nothing unsupported
NoAnalysis_found == [found |-> TRUE, schema |-> Null, unsupportedPaths |-> <<>>]
NoAnalysis == [found |-> FALSE, schema |-> Null, unsupportedPaths |-> <<>>]

\* schema.anyOf ?? schema.oneOf ?? schema.allOf
VariantsOf(schema) ==
  IF ~IsNullish(PropGet(schema, "anyOf")) THEN PropGet(schema, "anyOf")
  ELSE IF ~IsNullish(PropGet(schema, "oneOf")) THEN PropGet(schema, "oneOf")
  ELSE PropGet(schema, "allOf")

\* VariantKind that takes a const variant for a schema of its own
VariantKind_constIsSchema(variant) ==
  IF IsArray(PropGet(variant, "enum")) THEN "enum"
  ELSE IF schemaType(variant) = Str("null") THEN "null"
  ELSE "nonLiteral"
\* what the loop of normalizeUnion makes of one variant (part_002:525-547)
VariantKind(variant) ==
  IF IsArray(PropGet(variant, "enum")) THEN "enum"
  ELSE IF "const" \in DOMAIN variant.props THEN "const"
  ELSE IF schemaType(variant) = Str("null") THEN "null"
  ELSE "nonLiteral"

\* ItemSchemaOf that takes the last of several item schemas
ItemSchemaOf_last(items) ==
  IF IsArray(items) THEN ArrGet(items, Len(items.elems) - 1) ELSE items
\* Array.isArray(schema.items) ? schema.items[0] : schema.items
\* (part_002:487-489)
ItemSchemaOf(items) == IF IsArray(items) THEN ArrGet(items, 0) ELSE items

RECURSIVE normalizeSchemaNode(_, _)
RECURSIVE normalizeUnion(_, _)

\* normalizeUnion(schema, path), part_002:516-577; the variants of every
\* schema of the model are an array
normalizeUnion(schema, path) ==
  LET variants == VariantsOf(schema)
      vs == variants.elems
      kind(j) == VariantKind(vs[j])
      literals(j) ==
        IF kind(j) = "enum"
        THEN normalizeEnumValues(PropGet(vs[j], "enum").elems).enumValues
        ELSE IF kind(j) = "const" /\ ~IsNullish(PropGet(vs[j], "const"))
        THEN <<PropGet(vs[j], "const")>>
        ELSE <<>>
      nullish(j) ==
        \/ kind(j) = "enum"
             /\ normalizeEnumValues(PropGet(vs[j], "enum").elems).nullable
        \/ kind(j) = "const" /\ IsNullish(PropGet(vs[j], "const"))
        \/ kind(j) = "null"
      values == Flatten([j \in 1..Len(vs) |-> literals(j)])
      nullable == \E j \in 1..Len(vs) : nullish(j)
      nonLiteral == SelectSeq(vs, LAMBDA v : VariantKind(v) = "nonLiteral")
      only == normalizeSchemaNode(nonLiteral[1], path)
  IN IF ~IsArray(variants) THEN NoAnalysis
     ELSE IF \E j \in 1..Len(vs) : ~Truthy(vs[j]) \/ ~IsObjectLike(vs[j])
     THEN NoAnalysis
     ELSE IF values # <<>> /\ nonLiteral = <<>>
     THEN Analysis(
            PropSet(PropSet(PropSet(PropSet(PropSet(Spread(schema),
              "enum", Arr(Unique(values))),
              "nullable", Bool(nullable)),
              "anyOf", Undef), "oneOf", Undef), "allOf", Undef),
            <<>>)
     ELSE IF Len(nonLiteral) = 1
     THEN IF Truthy(only.schema)
          THEN [only EXCEPT !.schema = PropSet(@, "nullable", Bool(TRUE))]
          ELSE only
     ELSE NoAnalysis

\* normalizeSchemaNode(schema, path), part_002:428-514
normalizeSchemaNode(schema, path) ==
  LET label == pathLabel(path)
      union == normalizeUnion(schema, path)
      rawType == PropGet(schema, "type")
      nullable ==
        IsArray(rawType)
          /\ \E j \in 1..Len(rawType.elems) : rawType.elems[j] = Str("null")
      type ==
        IF ~IsNullish(schemaType(schema)) THEN schemaType(schema)
        ELSE IF \/ Truthy(PropGet(schema, "properties"))
                \/ Truthy(PropGet(schema, "additionalProperties"))
        THEN Str("object")
        ELSE Undef
      typed ==
        PropSet(PropSet(Spread(schema),
          "type", IF ~IsNullish(type) THEN type ELSE rawType),
          "nullable", IF nullable THEN Bool(TRUE)
                      ELSE PropGet(schema, "nullable"))
      hasEnum == Truthy(PropGet(typed, "enum"))
      listed == normalizeEnumValues(PropGet(typed, "enum").elems)
      withEnum ==
        IF ~hasEnum THEN typed
        ELSE IF listed.nullable
        THEN PropSet(PropSet(typed, "enum", Arr(listed.enumValues)),
                     "nullable", Bool(TRUE))
        ELSE PropSet(typed, "enum", Arr(listed.enumValues))
      ofEnum == IF hasEnum /\ listed.enumValues = <<>> THEN <<label>> ELSE <<>>
      \* an object: its properties, then its additionalProperties
      entries == SchemaEntries(OrEmptyObj(PropGet(schema, "properties")))
      results ==
        [j \in 1..Len(entries) |->
           normalizeSchemaNode(entries[j].value, Append(path, entries[j].key))]
      kept == {j \in 1..Len(entries) : Truthy(results[j].schema)}
      normalizedProps ==
        Obj([k \in {entries[j].key : j \in kept} |->
               results[CHOOSE j \in kept : entries[j].key = k].schema])
      additional == PropGet(schema, "additionalProperties")
      ofAdditional == normalizeSchemaNode(additional, Append(path, "*"))
      asObject ==
        LET withProps == PropSet(withEnum, "properties", normalizedProps)
        IN IF additional = Bool(TRUE) THEN withProps
           ELSE IF additional = Bool(FALSE)
           THEN PropSet(withProps, "additionalProperties", Bool(FALSE))
           ELSE IF Truthy(additional)
           THEN PropSet(withProps, "additionalProperties",
                        IF IsNullish(ofAdditional.schema) THEN additional
                        ELSE ofAdditional.schema)
           ELSE withProps
      ofObject ==
        Flatten([j \in 1..Len(entries) |-> results[j].unsupportedPaths])
          \o (IF additional = Bool(TRUE) THEN <<label>>
              ELSE IF additional = Bool(FALSE) THEN <<>>
              ELSE IF Truthy(additional)
                        /\ ofAdditional.unsupportedPaths # <<>>
              THEN <<label>>
              ELSE <<>>)
      \* an array: its item schema, the first when several are given
      items == PropGet(schema, "items")
      itemSchema == ItemSchemaOf(items)
      ofItem == normalizeSchemaNode(itemSchema, Append(path, "*"))
      asArray ==
        IF ~Truthy(itemSchema) THEN withEnum
        ELSE PropSet(withEnum, "items",
                     IF IsNullish(ofItem.schema) THEN itemSchema
                     ELSE ofItem.schema)
      ofArray ==
        IF ~Truthy(itemSchema) THEN <<label>>
        ELSE IF ofItem.unsupportedPaths # <<>> THEN <<label>>
        ELSE <<>>
  IN IF \/ Truthy(PropGet(schema, "anyOf"))
        \/ Truthy(PropGet(schema, "oneOf"))
        \/ Truthy(PropGet(schema, "allOf"))
     THEN IF union.found THEN union ELSE Analysis(schema, <<label>>)
     ELSE IF type = Str("object")
     THEN Analysis(asObject, Unique(ofEnum \o ofObject))
     ELSE IF type = Str("array")
     THEN Analysis(asArray, Unique(ofEnum \o ofArray))
     ELSE IF type \in {Str("string"), Str("number"), Str("integer"),
                       Str("boolean")}
     THEN Analysis(withEnum, Unique(ofEnum))
     ELSE IF ~Truthy(PropGet(withEnum, "enum"))
     THEN Analysis(withEnum, Unique(Append(ofEnum, label)))
     ELSE Analysis(withEnum, Unique(ofEnum))

\* analyzeConfigSchema(raw), part_002:420-426
analyzeConfigSchema(raw) ==
  IF ~Truthy(raw) \/ ~IsObjectLike(raw)
  THEN Analysis(Null, <<"<root>">>)
  ELSE normalizeSchemaNode(raw, <<>>)

\* ------------------------------------------------------------ config state
\* applyConfigSchema(state, res)
applyConfigSchema(res) ==
  /\ configSchema' = (IF IsNullish(res.schema) THEN Null ELSE res.schema)
  /\ configUiHints' = (IF IsNullish(res.uiHints) THEN EmptyObj ELSE res.uiHints)
  /\ configSchemaVersion' = (IF IsNullish(res.version) THEN Null ELSE res.version)

\* RefreshForm that replaces the form whether it is dirty or not
RefreshForm_always(received, copy) ==
  Hold(copy.heap, received.ref, copy.ref, NullRef)

\* the end of applyConfigSnapshot: a form that is not dirty is replaced by a
\* copy of the snapshot's config, a dirty one is kept
RefreshForm(received, copy) ==
  IF ~configFormDirty
  THEN Hold(copy.heap, received.ref, copy.ref, NullRef)
  ELSE Hold(received.heap, received.ref, configForm, NullRef)

\* whether applyConfigSnapshot ends by a TypeError for the response res
ApplyThrows(res) == ~Reached(OrEmptyObj(res.config), Len(SectionNames))

\* What lines 100-374 assign for the response res, given the forms and the
\* status texts of before (kept where a read raises before the assignment)
ProjectionsOf(res) ==
  LET config == OrEmptyObj(res.config)
  IN [telegram |-> IF Reached(config, 1)
                   THEN <<TRUE, FormValue(TelegramFormOf(config))>>
                   ELSE <<FALSE, <<>>>>,
      discord |-> IF Reached(config, 2)
                  THEN <<TRUE, FormValue(DiscordFormOf(config))>>
                  ELSE <<FALSE, <<>>>>,
      slack |-> IF Reached(config, 3)
                THEN <<TRUE, FormValue(SlackFormOf(config))>>
                ELSE <<FALSE, <<>>>>,
      signal |-> IF Reached(config, 4)
                 THEN <<TRUE, FormValue(SignalFormOf(config))>>
                 ELSE <<FALSE, <<>>>>,
      imessage |-> IF Reached(config, 5)
                   THEN <<TRUE, FormValue(IMessageFormOf(config))>>
                   ELSE <<FALSE, <<>>>>,
      status |-> IF Reached(config, 5)
                 THEN <<TRUE, FormValue(ConfigStatusOf(res.valid))>>
                 ELSE <<FALSE, <<>>>>]

\* the responses of the model, and what each of them projects to
AllResponses == SnapshotResponses \cup ProjResponses
Projections == [res \in AllResponses |-> ProjectionsOf(res)]

\* applyConfigSnapshot that leaves the projections alone while the form is
\* dirty
applyConfigSnapshot_keepsWhenDirty(res) ==
  LET received == IF IsObjectLike(res.config)
                  THEN Alloc(heap, res.config)
                  ELSE [heap |-> heap, ref |-> NullRef]
      source == IF received.ref = NullRef
                THEN Alloc(received.heap, EmptyObj)
                ELSE received
      copy == cloneConfigObject(source.heap, source.ref)
      p == Projections[res]
      Assigned(f, before) ==
        IF f[1] /\ ~configFormDirty THEN f[2] ELSE before
      done == ~ApplyThrows(res)
  IN /\ configSnapshot' =
          [present |-> TRUE, config |-> NameOfSnapshot(received.ref),
           raw |-> res.raw, valid |-> res.valid, issues |-> res.issues]
     /\ configRaw' =
          (IF res.raw.t = "str" THEN res.raw
           ELSE IF IsObjectLike(res.config) THEN JsonText(res.config)
           ELSE configRaw)
     /\ configValid' = (IF res.valid.t = "bool" THEN res.valid ELSE Null)
     /\ configIssues' = (IF IsArray(res.issues) THEN res.issues ELSE EmptyArr)
     /\ telegramForm' = Assigned(p.telegram, telegramForm)
     /\ discordForm' = Assigned(p.discord, discordForm)
     /\ slackForm' = Assigned(p.slack, slackForm)
     /\ signalForm' = Assigned(p.signal, signalForm)
     /\ imessageForm' = Assigned(p.imessage, imessageForm)
     /\ telegramConfigStatus' = Assigned(p.status, telegramConfigStatus)
     /\ discordConfigStatus' = Assigned(p.status, discordConfigStatus)
     /\ slackConfigStatus' = Assigned(p.status, slackConfigStatus)
     /\ signalConfigStatus' = Assigned(p.status, signalConfigStatus)
     /\ imessageConfigStatus' = Assigned(p.status, imessageConfigStatus)
     /\ IF done
        THEN RefreshForm(received, copy)
        ELSE Hold(received.heap, received.ref, configForm, NullRef)

\* applyConfigSnapshot(state, snapshot), the snapshot being the object that
\* the transport has just built from a response res.  The assignments are
\* made in the order of the code, up to the first read that raises.
applyConfigSnapshot(res) ==
  LET received == IF IsObjectLike(res.config)
                  THEN Alloc(heap, res.config)
                  ELSE [heap |-> heap, ref |-> NullRef]
      source == IF received.ref = NullRef
                THEN Alloc(received.heap, EmptyObj)
                ELSE received
      copy == cloneConfigObject(source.heap, source.ref)
      p == Projections[res]
      Assigned(f, before) == IF f[1] THEN f[2] ELSE before
      done == ~ApplyThrows(res)
  IN /\ configSnapshot' =
          [present |-> TRUE, config |-> NameOfSnapshot(received.ref),
           raw |-> res.raw, valid |-> res.valid, issues |-> res.issues]
     /\ configRaw' =
          (IF res.raw.t = "str" THEN res.raw
           ELSE IF IsObjectLike(res.config) THEN JsonText(res.config)
           ELSE configRaw)
     /\ configValid' = (IF res.valid.t = "bool" THEN res.valid ELSE Null)
     /\ configIssues' = (IF IsArray(res.issues) THEN res.issues ELSE EmptyArr)
     /\ telegramForm' = Assigned(p.telegram, telegramForm)
     /\ discordForm' = Assigned(p.discord, discordForm)
     /\ slackForm' = Assigned(p.slack, slackForm)
     /\ signalForm' = Assigned(p.signal, signalForm)
     /\ imessageForm' = Assigned(p.imessage, imessageForm)
     /\ telegramConfigStatus' = Assigned(p.status, telegramConfigStatus)
     /\ discordConfigStatus' = Assigned(p.status, discordConfigStatus)
     /\ slackConfigStatus' = Assigned(p.status, slackConfigStatus)
     /\ signalConfigStatus' = Assigned(p.status, signalConfigStatus)
     /\ imessageConfigStatus' = Assigned(p.status, imessageConfigStatus)
     /\ IF done
        THEN RefreshForm(received, copy)
        ELSE Hold(received.heap, received.ref, configForm, NullRef)

\* PatchBase that prefers the snapshot's config to the form value
PatchBase_snapshotFirst ==
  IF configSnapshot.present /\ configSnapshot.config # NullRef
  THEN [heap |-> heap, ref |-> configSnapshot.config]
  ELSE IF configForm # NullRef THEN [heap |-> heap, ref |-> configForm]
       ELSE Alloc(heap, EmptyObj)

\* state.configForm ?? state.configSnapshot?.config ?? {} : the heap with the
\* object the expression yields, and its reference
PatchBase ==
  IF configForm # NullRef THEN [heap |-> heap, ref |-> configForm]
  ELSE IF configSnapshot.present /\ configSnapshot.config # NullRef
       THEN [heap |-> heap, ref |-> configSnapshot.config]
       ELSE Alloc(heap, EmptyObj)

\* history of the edits made while a save is under way: none so far, and
\* the form value that such an edit left
NoLateEdit == [on |-> TRUE, made |-> FALSE, form |-> Undef]
HistoryOff == [on |-> FALSE, made |-> FALSE, form |-> Undef]
\* a request of saveConfig, config.set or the reload after it, awaits its
\* response
SaveUnderWay == \E i \in 1..Len(inflight) : inflight[i].viaSave
\* a patch leaves the form value `form`
NotePatch(form) ==
  lateEdit' = (IF lateEdit.on /\ (SaveUnderWay \/ lateEdit.made)
               THEN [on |-> TRUE, made |-> TRUE, form |-> form]
               ELSE lateEdit)
\* saveConfig runs: the edits made before it are its own
NoteSave ==
  lateEdit' = (IF ~client \/ ~connected \/ ~lateEdit.on THEN lateEdit
               ELSE NoLateEdit)

\* whether request i is the config.get sent last
IsNewestGet(i) ==
  /\ getOrder = "pending"
  /\ ~\E j \in (i + 1)..Len(inflight) : inflight[j].method = "config.get"
\* a config.get is sent
NoteGetSent == getOrder' = (IF getOrder = "off" THEN "off" ELSE "pending")
\* the response to the config.get i is applied
NoteGetApplied(i) ==
  getOrder' = (IF getOrder = "off" THEN "off"
               ELSE IF IsNewestGet(i) THEN "applied"
               ELSE IF getOrder = "applied" THEN "overtaken"
               ELSE getOrder)
\* the config.get i fails
NoteGetFailed(i) ==
  getOrder' = (IF IsNewestGet(i) THEN "failed" ELSE getOrder)

StateInit ==
  /\ client \in BOOLEAN
  /\ connected = client
  /\ configLoading = FALSE
  /\ configRaw = Str("")
  /\ configValid = Null
  /\ configIssues = EmptyArr
  /\ configSaving = FALSE
  /\ \/ configSnapshot = NoSnapshot /\ heap = <<>>
     \/ \E res \in SnapshotResponses :
          /\ IsObjectLike(res.config)
          /\ configSnapshot = [present |-> TRUE, config |-> 1, raw |-> res.raw,
                               valid |-> res.valid, issues |-> res.issues]
          /\ heap = (1 :> res.config)
  /\ configSchema = Null
  /\ configSchemaVersion = Null
  /\ configSchemaLoading = FALSE
  /\ configUiHints = EmptyObj
  /\ configForm = NullRef
  /\ configFormDirty = FALSE
  /\ configFormMode = "form"
  /\ lastError = NoError
  /\ telegramForm = FormValue(baseTelegramForm)
  /\ discordForm = FormValue(baseDiscordForm)
  /\ slackForm = FormValue(baseSlackForm)
  /\ signalForm = FormValue(baseSignalForm)
  /\ imessageForm = FormValue(baseIMessageForm)
  /\ telegramConfigStatus = FormValue(Null)
  /\ discordConfigStatus = FormValue(Null)
  /\ slackConfigStatus = FormValue(Null)
  /\ signalConfigStatus = FormValue(Null)
  /\ imessageConfigStatus = FormValue(Null)
  /\ inflight = <<>>
  /\ hasStructuredClone \in BOOLEAN
  /\ prevForm = NullRef
  /\ nPatches = 0
  /\ last = Op("init")

\* the state that createState builds, no history recorded
CtlInit == StateInit /\ lateEdit = HistoryOff /\ getOrder = "off"

\* the same, with the history recorded
HistoryInit == StateInit /\ lateEdit = NoLateEdit /\ getOrder = "none"

PtIdle ==
  /\ ptTree = EmptyObj
  /\ ptPath = <<>>
  /\ ptValue = Undef
  /\ ptOp = "none"
  /\ ptOut = EmptyObj

\* no hints, and no change made in a control yet
NoHints == <<>>
NoEvent ==
  [kind |-> "none", at |-> <<>>, input |-> "", fired |-> FALSE, path |-> <<>>,
   value |-> Undef]

RdIdle ==
  /\ rdValue = Null
  /\ rdHints = NoHints
  /\ rdOut = {}
  /\ rdOrder = {}
  /\ rdEvent = NoEvent

\* the controller as it is made: Model() with its defaults, no panel, no
\* task, no forward configuration (part_000:10-26)
NoForwardConfig == [set |-> FALSE, enabled |-> FALSE]
OvIdle ==
  /\ model = [text |-> "", isFinal |-> FALSE, isVisible |-> FALSE,
              forwardEnabled |-> FALSE, isSending |-> FALSE,
              isEditing |-> FALSE]
  /\ window = FALSE
  /\ autoSendTask = 0
  /\ forwardConfig = NoForwardConfig
  /\ tasks = <<>>
  /\ mainQueue = <<>>
  /\ animations = 0
  /\ session = 0
  /\ forwards = <<>>

NzIdle ==
  /\ nzRaw = Null
  /\ nzOp = "none"
  /\ nzOut = NoAnalysis
  /\ nzFirst = NoAnalysis
  /\ RdIdle
  /\ OvIdle

\* the host connects or disconnects the gateway client
ConnectionChange ==
  \E c \in BOOLEAN, k \in BOOLEAN :
    /\ k => c
    /\ <<c, k>> # <<client, connected>>
    /\ client' = c
    /\ connected' = k
    /\ last' = Op("connection")
    /\ ReleasePrev
    /\ UNCHANGED <<snapshotVars, schemaVars, formVars, flagVars, configFormMode,
                   lastError, inflight, hasStructuredClone, lateEdit, getOrder, fnVars,
                 projVars>>

\* the host switches between the form and the raw editor
SetFormMode ==
  /\ configFormMode' = (IF configFormMode = "form" THEN "raw" ELSE "form")
  /\ last' = Op("formMode")
  /\ ReleasePrev
  /\ UNCHANGED <<connVars, snapshotVars, schemaVars, formVars, flagVars,
                 lastError, inflight, hasStructuredClone, lateEdit, getOrder, fnVars,
                 projVars>>

\* loadConfig(state), up to its await
LoadConfigCall ==
  /\ last' = Op("loadConfig")
  /\ IF ~client \/ ~connected
     THEN UNCHANGED <<configLoading, lastError, inflight, getOrder>>
     ELSE /\ configLoading' = TRUE
          /\ lastError' = NoError
          /\ inflight' = Append(inflight, Request("config.get", FALSE, Undef))
          /\ NoteGetSent
  /\ ReleasePrev
  /\ UNCHANGED <<connVars, snapshotVars, schemaVars, formVars, configSaving,
                 configSchemaLoading, configFormMode, hasStructuredClone, lateEdit,
                 fnVars, projVars>>

\* what follows `await loadConfig(state)` in saveConfig: its finally block
AfterAwaitedLoad(req) ==
  configSaving' = (IF req.viaSave THEN FALSE ELSE configSaving)

\* LoadConfigResolve that also clears the dirty flag
LoadConfigResolve_clearsDirty(i) ==
  /\ inflight[i].method = "config.get"
  /\ NoteGetApplied(i)
  /\ \E res \in SnapshotResponses :
       /\ applyConfigSnapshot(res)
       /\ lastError' = (IF ApplyThrows(res) THEN TypeErrorText ELSE lastError)
  /\ configLoading' = FALSE
  /\ AfterAwaitedLoad(inflight[i])
  /\ inflight' = RemoveAt(inflight, i)
  /\ last' = Op("loadConfig.resolve")
  /\ configFormDirty' = FALSE
  /\ UNCHANGED <<connVars, schemaVars, nPatches,
                 configSchemaLoading, configFormMode, hasStructuredClone, lateEdit,
                 fnVars>>

\* config.get answers: the rest of loadConfig's try block (with its catch
\* block, should applyConfigSnapshot raise) and its finally block, then the
\* rest of the saveConfig that awaited this loadConfig
LoadConfigResolve(i) ==
  /\ inflight[i].method = "config.get"
  /\ NoteGetApplied(i)
  /\ \E res \in SnapshotResponses :
       /\ applyConfigSnapshot(res)
       /\ lastError' = (IF ApplyThrows(res) THEN TypeErrorText ELSE lastError)
  /\ configLoading' = FALSE
  /\ AfterAwaitedLoad(inflight[i])
  /\ inflight' = RemoveAt(inflight, i)
  /\ last' = Op("loadConfig.resolve")
  /\ UNCHANGED <<connVars, schemaVars, configFormDirty, nPatches,
                 configSchemaLoading, configFormMode, hasStructuredClone, lateEdit,
                 fnVars>>

\* LoadConfigReject that puts the slack projection back to its defaults
LoadConfigReject_resetsSlack(i) ==
  /\ inflight[i].method = "config.get"
  /\ NoteGetFailed(i)
  /\ lastError' = ErrorText
  /\ configLoading' = FALSE
  /\ AfterAwaitedLoad(inflight[i])
  /\ inflight' = RemoveAt(inflight, i)
  /\ last' = Op("loadConfig.reject")
  /\ ReleasePrev
  /\ slackForm' = FormValue(baseSlackForm)
  /\ UNCHANGED <<connVars, snapshotVars, schemaVars, formVars,
                 configSchemaLoading, configFormMode, hasStructuredClone, lateEdit,
                 fnVars, telegramForm, discordForm, signalForm, imessageForm,
                 channelStatuses>>

\* config.get fails: the catch and finally blocks of loadConfig, then the
\* rest of the saveConfig that awaited this loadConfig
LoadConfigReject(i) ==
  /\ inflight[i].method = "config.get"
  /\ NoteGetFailed(i)
  /\ lastError' = ErrorText
  /\ configLoading' = FALSE
  /\ AfterAwaitedLoad(inflight[i])
  /\ inflight' = RemoveAt(inflight, i)
  /\ last' = Op("loadConfig.reject")
  /\ ReleasePrev
  /\ UNCHANGED <<connVars, snapshotVars, schemaVars, formVars,
                 configSchemaLoading, configFormMode, hasStructuredClone, lateEdit,
                 fnVars, projVars>>

\* LoadConfigSchemaCall without the check of configSchemaLoading
LoadConfigSchemaCall_noGuard ==
  /\ last' = Op("loadConfigSchema")
  /\ IF ~client \/ ~connected
     THEN UNCHANGED <<configSchemaLoading, inflight>>
     ELSE /\ configSchemaLoading' = TRUE
          /\ inflight' = Append(inflight, Request("config.schema", FALSE, Undef))
  /\ ReleasePrev
  /\ UNCHANGED <<connVars, snapshotVars, schemaVars, formVars, configLoading,
                 configSaving, configFormMode, lastError, hasStructuredClone, lateEdit, getOrder,
                 fnVars, projVars>>

\* loadConfigSchema(state), up to its await
LoadConfigSchemaCall ==
  /\ last' = Op("loadConfigSchema")
  /\ IF ~client \/ ~connected \/ configSchemaLoading
     THEN UNCHANGED <<configSchemaLoading, inflight>>
     ELSE /\ configSchemaLoading' = TRUE
          /\ inflight' = Append(inflight, Request("config.schema", FALSE, Undef))
  /\ ReleasePrev
  /\ UNCHANGED <<connVars, snapshotVars, schemaVars, formVars, configLoading,
                 configSaving, configFormMode, lastError, hasStructuredClone, lateEdit, getOrder,
                 fnVars, projVars>>

\* config.schema answers
LoadConfigSchemaResolve(i) ==
  /\ inflight[i].method = "config.schema"
  /\ \E res \in SchemaResponses : applyConfigSchema(res)
  /\ configSchemaLoading' = FALSE
  /\ inflight' = RemoveAt(inflight, i)
  /\ last' = Op("loadConfigSchema.resolve")
  /\ ReleasePrev
  /\ UNCHANGED <<connVars, snapshotVars, formVars, configLoading, configSaving,
                 configFormMode, lastError, hasStructuredClone, lateEdit, getOrder, fnVars,
                 projVars>>

\* config.schema fails
LoadConfigSchemaReject(i) ==
  /\ inflight[i].method = "config.schema"
  /\ lastError' = ErrorText
  /\ configSchemaLoading' = FALSE
  /\ inflight' = RemoveAt(inflight, i)
  /\ last' = Op("loadConfigSchema.reject")
  /\ ReleasePrev
  /\ UNCHANGED <<connVars, snapshotVars, schemaVars, formVars, configLoading,
                 configSaving, configFormMode, hasStructuredClone, lateEdit, getOrder, fnVars,
                 projVars>>

\* SaveRaw that sends the raw text whatever the mode
SaveRaw_rawOnly == configRaw

\* the raw parameter that saveConfig sends
SaveRaw ==
  IF configFormMode = "form" /\ configForm # NullRef
  THEN JsonText(heap[configForm])
  ELSE configRaw

\* SaveConfigCall that raises its flag and clears the error before it looks
\* at the connection
SaveConfigCall_flagFirst ==
  /\ last' = Op("saveConfig")
  /\ NoteSave
  /\ configSaving' = TRUE
  /\ lastError' = NoError
  /\ IF ~client \/ ~connected
     THEN UNCHANGED inflight
     ELSE inflight' = Append(inflight, Request("config.set", TRUE, SaveRaw))
  /\ ReleasePrev
  /\ UNCHANGED <<connVars, snapshotVars, schemaVars, formVars, configLoading,
                 configSchemaLoading, configFormMode, hasStructuredClone, getOrder,
                 fnVars, projVars>>

\* saveConfig(state), up to its first await
SaveConfigCall ==
  /\ last' = Op("saveConfig")
  /\ NoteSave
  /\ IF ~client \/ ~connected
     THEN UNCHANGED <<configSaving, lastError, inflight>>
     ELSE /\ configSaving' = TRUE
          /\ lastError' = NoError
          /\ inflight' = Append(inflight, Request("config.set", TRUE, SaveRaw))
  /\ ReleasePrev
  /\ UNCHANGED <<connVars, snapshotVars, schemaVars, formVars, configLoading,
                 configSchemaLoading, configFormMode, hasStructuredClone, getOrder,
                 fnVars, projVars>>

\* config.set is acknowledged: the dirty flag is cleared and loadConfig is
\* called; when loadConfig returns at once, saveConfig's finally block runs
SaveConfigResolve(i) ==
  /\ inflight[i].method = "config.set"
  /\ configFormDirty' = FALSE
  /\ IF ~client \/ ~connected
     THEN /\ configSaving' = FALSE
          /\ inflight' = RemoveAt(inflight, i)
          /\ UNCHANGED <<configLoading, lastError, getOrder>>
     ELSE /\ configLoading' = TRUE
          /\ lastError' = NoError
          /\ inflight' = Append(RemoveAt(inflight, i),
                                Request("config.get", TRUE, Undef))
          /\ NoteGetSent
          /\ UNCHANGED configSaving
  /\ last' = Op("saveConfig.resolve")
  /\ ReleasePrev
  /\ UNCHANGED <<connVars, snapshotVars, schemaVars, configForm, nPatches,
                 configSchemaLoading, configFormMode, hasStructuredClone, lateEdit,
                 fnVars, projVars>>

\* SaveConfigReject that gives the edits up: the dirty flag is cleared
SaveConfigReject_clearsDirty(i) ==
  /\ inflight[i].method = "config.set"
  /\ lastError' = ErrorText
  /\ configSaving' = FALSE
  /\ configFormDirty' = FALSE
  /\ inflight' = RemoveAt(inflight, i)
  /\ last' = Op("saveConfig.reject")
  /\ ReleasePrev
  /\ UNCHANGED <<connVars, snapshotVars, schemaVars, configForm, nPatches,
                 configLoading, configSchemaLoading, configFormMode,
                 hasStructuredClone, lateEdit, getOrder, fnVars,
                 projVars>>

\* config.set fails: the catch and finally blocks of saveConfig
SaveConfigReject(i) ==
  /\ inflight[i].method = "config.set"
  /\ lastError' = ErrorText
  /\ configSaving' = FALSE
  /\ inflight' = RemoveAt(inflight, i)
  /\ last' = Op("saveConfig.reject")
  /\ ReleasePrev
  /\ UNCHANGED <<connVars, snapshotVars, schemaVars, formVars, configLoading,
                 configSchemaLoading, configFormMode, hasStructuredClone, lateEdit, getOrder,
                 fnVars, projVars>>

\* updateConfigFormValue(state, path, value)
updateConfigFormValue(path, value) ==
  LET source == PatchBase
      base == cloneConfigObject(source.heap, source.ref)
      written == [base.heap EXCEPT
                    ![base.ref] = setPathValue(@, path, value)]
  IN /\ Hold(written, configSnapshot.config, base.ref, configForm)
     /\ NotePatch(written[base.ref])
     /\ configFormDirty' = TRUE
     /\ nPatches' = nPatches + 1
     /\ last' = PatchOp("updateConfigFormValue", path, value)
     /\ UNCHANGED <<connVars, snapshotVars, schemaVars, flagVars,
                    configFormMode, lastError, inflight, hasStructuredClone, getOrder,
                    fnVars, projVars>>

\* removeConfigFormValue(state, path)
removeConfigFormValue(path) ==
  LET source == PatchBase
      base == cloneConfigObject(source.heap, source.ref)
      written == [base.heap EXCEPT ![base.ref] = removePathValue(@, path)]
  IN /\ Hold(written, configSnapshot.config, base.ref, configForm)
     /\ NotePatch(written[base.ref])
     /\ configFormDirty' = TRUE
     /\ nPatches' = nPatches + 1
     /\ last' = PatchOp("removeConfigFormValue", path, Undef)
     /\ UNCHANGED <<connVars, snapshotVars, schemaVars, flagVars,
                    configFormMode, lastError, inflight, hasStructuredClone, getOrder,
                    fnVars, projVars>>

\* what the form may patch
PatchPaths ==
  { <<>>, <<K("a")>>, <<K("a"), K("b")>>, <<K("b"), I(0)>>,
    <<K("b"), I(1), K("a")>> }
PatchValues == {Str("v"), Undef}
\* the patches made while requests are under way
EditPaths == { <<K("a")>>, <<K("b"), I(1)>> }

Init == CtlInit /\ PtIdle /\ NzIdle

\* The whole controller but the schema fetch: the host connecting and
\* disconnecting, loads and saves and their responses in any order, and edits
\* of the form in between.
Next ==
  \/ ConnectionChange
  \/ SetFormMode
  \/ Len(inflight) < MaxInFlight /\ LoadConfigCall
  \/ \E i \in 1..Len(inflight) : LoadConfigResolve(i)
  \/ \E i \in 1..Len(inflight) : LoadConfigReject(i)
  \/ Len(inflight) < MaxInFlight /\ SaveConfigCall
  \/ \E i \in 1..Len(inflight) : SaveConfigResolve(i)
  \/ \E i \in 1..Len(inflight) : SaveConfigReject(i)
  \/ /\ nPatches < MaxEdits
     /\ \E path \in EditPaths, value \in PatchValues :
          updateConfigFormValue(path, value)
  \/ /\ nPatches < MaxEdits
     /\ \E path \in EditPaths : removeConfigFormValue(path)

Spec == Init /\ [][Next]_vars

\* The form under a connected client: loads and patches.
FormInit == Init /\ client

FormNext ==
  \/ Len(inflight) < MaxInFlight /\ LoadConfigCall
  \/ \E i \in 1..Len(inflight) : LoadConfigResolve(i)
  \/ \E i \in 1..Len(inflight) : LoadConfigReject(i)
  \/ /\ nPatches < MaxPatches
     /\ \E path \in PatchPaths, value \in PatchValues :
          updateConfigFormValue(path, value)
  \/ /\ nPatches < MaxPatches
     /\ \E path \in PatchPaths : removeConfigFormValue(path)

FormSpec == FormInit /\ [][FormNext]_vars

\* The schema fetch, beside loads and a client that comes and goes.
SchemaNext ==
  \/ ConnectionChange
  \/ Len(inflight) < MaxInFlight /\ LoadConfigCall
  \/ \E i \in 1..Len(inflight) : LoadConfigResolve(i)
  \/ \E i \in 1..Len(inflight) : LoadConfigReject(i)
  \/ (Len(inflight) < MaxInFlight \/ configSchemaLoading) /\ LoadConfigSchemaCall
  \/ \E i \in 1..Len(inflight) : LoadConfigSchemaResolve(i)
  \/ \E i \in 1..Len(inflight) : LoadConfigSchemaReject(i)

SchemaSpec == Init /\ [][SchemaNext]_vars

\* applyConfigSnapshot(state, snapshot) called directly, as the tests call
\* it; an error it raises goes to the caller
ApplySnapshotCall ==
  \E res \in ProjResponses :
    /\ applyConfigSnapshot(res)
    /\ last' = Op(IF ApplyThrows(res) THEN "applyConfigSnapshot.throw"
                  ELSE "applyConfigSnapshot")
    /\ UNCHANGED <<connVars, schemaVars, configFormDirty, nPatches, flagVars,
                   configFormMode, lastError, inflight, hasStructuredClone, lateEdit, getOrder,
                   fnVars>>

\* the field of the config that the form edits between snapshots
ProjPaths == { <<K("slack"), K("botToken")>> }

ProjInit == Init /\ client /\ hasStructuredClone /\ configSnapshot = NoSnapshot

\* Snapshots of every shape applied one after the other, with edits of the
\* form in between.
ProjNext ==
  \/ ApplySnapshotCall
  \/ /\ nPatches < MaxEdits
     /\ \E path \in ProjPaths : updateConfigFormValue(path, Str("v"))
  \/ /\ nPatches < MaxEdits
     /\ \E path \in ProjPaths : removeConfigFormValue(path)

ProjSpec == ProjInit /\ [][ProjNext]_vars

\* the one key edited while loads, saves and schema fetches are under way
DirtyPaths == { <<K("a")>> }

\* Everything that touches the dirty flag, under a connected client: loads,
\* saves, schema fetches and their responses in any order, and edits.
DirtyInit == FormInit /\ hasStructuredClone /\ configSnapshot = NoSnapshot

DirtyNext ==
  \/ Len(inflight) < MaxInFlight /\ LoadConfigCall
  \/ \E i \in 1..Len(inflight) : LoadConfigResolve(i)
  \/ \E i \in 1..Len(inflight) : LoadConfigReject(i)
  \/ Len(inflight) < MaxInFlight /\ SaveConfigCall
  \/ \E i \in 1..Len(inflight) : SaveConfigResolve(i)
  \/ \E i \in 1..Len(inflight) : SaveConfigReject(i)
  \/ Len(inflight) < MaxInFlight /\ LoadConfigSchemaCall
  \/ \E i \in 1..Len(inflight) : LoadConfigSchemaResolve(i)
  \/ \E i \in 1..Len(inflight) : LoadConfigSchemaReject(i)
  \/ /\ nPatches < MaxEdits
     /\ \E path \in DirtyPaths :
          updateConfigFormValue(path, Str("v"))
  \/ /\ nPatches < MaxEdits
     /\ \E path \in DirtyPaths : removeConfigFormValue(path)

DirtySpec == DirtyInit /\ [][DirtyNext]_vars

\* The three requests under a client that comes and goes: a call made while
\* the client is away is let through whatever is in flight, since it sends
\* nothing.
GateInit == Init /\ hasStructuredClone /\ configSnapshot = NoSnapshot

GateNext ==
  \/ ConnectionChange
  \/ (Len(inflight) < MaxPending \/ ~connected) /\ LoadConfigCall
  \/ \E i \in 1..Len(inflight) : LoadConfigResolve(i)
  \/ \E i \in 1..Len(inflight) : LoadConfigReject(i)
  \/ (Len(inflight) < MaxPending \/ ~connected) /\ SaveConfigCall
  \/ \E i \in 1..Len(inflight) : SaveConfigResolve(i)
  \/ \E i \in 1..Len(inflight) : SaveConfigReject(i)
  \/ (Len(inflight) < MaxPending \/ ~connected) /\ LoadConfigSchemaCall
  \/ \E i \in 1..Len(inflight) : LoadConfigSchemaResolve(i)
  \/ \E i \in 1..Len(inflight) : LoadConfigSchemaReject(i)
  \/ /\ nPatches < MaxEdits
     /\ \E path \in DirtyPaths : updateConfigFormValue(path, Str("v"))

GateSpec == GateInit /\ [][GateNext]_vars

\* Saving from either editor, under a connected client: the host switches
\* between the form and the raw editor, loads, edits and saves.
SaveInit ==
  /\ HistoryInit /\ PtIdle /\ NzIdle
  /\ client /\ hasStructuredClone /\ configSnapshot = NoSnapshot

SaveNext ==
  \/ SetFormMode
  \/ Len(inflight) < MaxPending /\ LoadConfigCall
  \/ \E i \in 1..Len(inflight) : LoadConfigResolve(i)
  \/ \E i \in 1..Len(inflight) : LoadConfigReject(i)
  \/ Len(inflight) < MaxPending /\ SaveConfigCall
  \/ \E i \in 1..Len(inflight) : SaveConfigResolve(i)
  \/ \E i \in 1..Len(inflight) : SaveConfigReject(i)
  \/ /\ nPatches < MaxEdits
     /\ \E path \in EditPaths, value \in PatchValues :
          updateConfigFormValue(path, value)
  \/ /\ nPatches < MaxEdits
     /\ \E path \in EditPaths : removeConfigFormValue(path)

SaveSpec == SaveInit /\ [][SaveNext]_vars

\* Loads and saves that overlap, under a connected client: calls while
\* requests await their response, and the responses in any order.
OrderInit ==
  /\ HistoryInit /\ PtIdle /\ NzIdle
  /\ client /\ hasStructuredClone /\ configSnapshot = NoSnapshot

OrderNext ==
  \/ Len(inflight) < MaxInFlight /\ LoadConfigCall
  \/ \E i \in 1..Len(inflight) : LoadConfigResolve(i)
  \/ \E i \in 1..Len(inflight) : LoadConfigReject(i)
  \/ Len(inflight) < MaxInFlight /\ SaveConfigCall
  \/ \E i \in 1..Len(inflight) : SaveConfigResolve(i)
  \/ \E i \in 1..Len(inflight) : SaveConfigReject(i)

OrderSpec == OrderInit /\ [][OrderNext]_vars

\* ------------------------------------------- the path mutator on its own
Leaves == {Str("x"), Null}

\* the containers whose children are drawn from sub
ContainersOver(sub) ==
  {Obj(f) : f \in UNION {[ks -> sub] : ks \in SUBSET Keys}}
  \cup {Arr(s) : s \in UNION {[1..n -> sub \cup {Hole}] : n \in 0..MaxArr}}

Level1 == Leaves \cup ContainersOver(Leaves)

Segments == {K(k) : k \in Keys} \cup {I(n) : n \in Indices}
Paths == UNION {[1..n -> Segments] : n \in 0..MaxPathLen}
Values == {Str("v"), Undef, EmptyObj}
\* longer arrays and deeper trees, among them the ones of the documented
\* example set({}, ["a","b",0], "x") / remove(["a","b",0])
ExtraTrees ==
  { Obj("a" :> Obj("b" :> Arr(<<Str("x")>>))),
    Obj("a" :> Obj("b" :> Arr(<<Str("x"), Null>>)) @@ "b" :> Str("x")),
    Obj("a" :> Obj("b" :> Obj("a" :> Str("x") @@ "b" :> Null))),
    Obj("b" :> Arr(<<Obj("a" :> Str("x")), Arr(<<Null, Str("x")>>)>>)),
    Obj("a" :> Arr(<<Str("x"), Null>>) @@ "b" :> Arr(<<Hole, Str("x")>>)),
    Arr(<<Str("x"), Null>>),
    Arr(<<Null, Str("x"), Hole>>),
    Arr(<<Arr(<<Str("x"), Null>>), Obj("a" :> Str("x"))>>),
    Arr(<<Arr(<<Arr(<<Str("x"), Null>>)>>), Obj("a" :> Arr(<<Str("x")>>))>>) }
Roots == ContainersOver(Level1) \cup ExtraTrees

PtInit ==
  /\ CtlInit /\ ~client /\ hasStructuredClone /\ configSnapshot = NoSnapshot
  /\ ptTree \in Roots
  /\ ptPath \in Paths
  /\ ptValue \in Values
  /\ ptOp = "none"
  /\ ptOut = ptTree
  /\ NzIdle

PtSet ==
  /\ ptOp = "none"
  /\ ptOp' = "set"
  /\ ptOut' = setPathValue(ptTree, ptPath, ptValue)
  /\ UNCHANGED <<ptTree, ptPath, ptValue, ctlVars, nzVars, rdVars, ovVars>>

PtRemove ==
  /\ ptOp = "none"
  /\ ptOp' = "remove"
  /\ ptOut' = removePathValue(ptTree, ptPath)
  /\ UNCHANGED <<ptTree, ptPath, ptValue, ctlVars, nzVars, rdVars, ovVars>>

PtNext == PtSet \/ PtRemove
PathSpec == PtInit /\ [][PtNext]_vars

\* ---------------------------------------- the schema normalizer on its own
MaxVariants == 2   \* most variants of a union among the raw schemas

\* variants that stand for literals or for null
LiteralVariants ==
  { Obj([const |-> Str("a")]),
    Obj([const |-> Str("b"), type |-> Str("string")]),
    Obj([enum |-> Arr(<<Str("a"), Str("b")>>)]),
    Obj([enum |-> Arr(<<Str("b"), Null>>)]),
    Obj([const |-> Null]),
    Obj([type |-> Str("null")]) }

\* variants that are schemas of their own, the last one a union again
NonLiteralVariants ==
  { Obj([type |-> Str("string")]),
    Obj([type |-> Str("number")]),
    Obj([type |-> Str("object"),
         properties |-> Obj([mode |-> Obj([type |-> Str("string")])])]),
    Obj([type |-> Str("array")]),
    Obj([anyOf |-> Arr(<<Obj([type |-> Str("string")]),
                         Obj([type |-> Str("boolean")])>>)]) }

UnionKeywords == {"anyOf", "oneOf", "allOf"}

\* the union nodes: one keyword over one to MaxVariants variants
Unions ==
  {Obj(kw :> Arr(vs)) :
     kw \in UnionKeywords,
     vs \in UNION {[1..n -> LiteralVariants \cup NonLiteralVariants] :
                     n \in 1..MaxVariants}}

\* union nodes that also say what they are themselves: a type beside the
\* union keyword
TypedUnions ==
  {Obj("type" :> Str(t)
       @@ kw :> Arr(<<Obj([const |-> Str("a")]), Obj([const |-> Str("b")])>>)) :
     t \in {"string", "array"}, kw \in UnionKeywords}

\* array nodes: without an item schema, with one, with several, with an item
\* schema that is itself unsupported, with an enum list beside the items
ArrayNodes ==
  LET string == Obj([type |-> Str("string")])
      mixed == Obj("anyOf" :> Arr(<<string, Obj([type |-> Str("number")])>>))
      array(items) == Obj([type |-> Str("array"), items |-> items])
      listing(enum) ==
        Obj([type |-> Str("array"), items |-> string, enum |-> Arr(enum)])
  IN { Obj([type |-> Str("array")]),
       array(string),
       array(Arr(<<>>)),
       array(Arr(<<string, mixed>>)),
       array(Arr(<<mixed, string>>)),
       array(Obj([type |-> Str("array")])),
       array(Obj([type |-> Str("object"),
                  additionalProperties |-> Bool(TRUE)])),
       Obj([type |-> Arr(<<Str("array"), Str("null")>>), items |-> string]),
       listing(<<>>),
       listing(<<Null>>),
       listing(<<Str("a")>>) }

Placements == {"root", "property", "items", "map"}

\* the schema with the node u as its root, as the property `mixed` of its
\* root, as the item schema of the array `list`, or as the schema of the
\* values of a map
Place(u, where) ==
  CASE where = "root" -> u
    [] where = "property" ->
         Obj([type |-> Str("object"), properties |-> Obj([mixed |-> u])])
    [] where = "items" ->
         Obj([type |-> Str("object"),
              properties |->
                Obj([mode |-> Obj([type |-> Str("string")]),
                     list |-> Obj([type |-> Str("array"), items |-> u])])])
    [] OTHER ->
         Obj([type |-> Str("object"), additionalProperties |-> u])

\* what analyzeConfigSchema is handed: a union somewhere in a schema, a
\* schema without unions, or something that is no schema
RawSchemas ==
  {Place(u, where) :
     u \in Unions \cup TypedUnions \cup ArrayNodes, where \in Placements}
  \cup {Place(Obj([type |-> Arr(<<Str("string"), Str("null")>>),
                   enum |-> Arr(<<Str("a"), Null, Str("a")>>)]), where) :
          where \in Placements}
  \cup {Null, Str("schema"),
        Obj([type |-> Str("object"), additionalProperties |-> Bool(TRUE),
             properties |-> Obj([mode |-> Obj([type |-> Str("string")])])])}

NzInit ==
  /\ CtlInit /\ ~client /\ hasStructuredClone /\ configSnapshot = NoSnapshot
  /\ PtIdle
  /\ nzRaw \in RawSchemas
  /\ nzOp = "none"
  /\ nzOut = NoAnalysis
  /\ nzFirst = NoAnalysis
  /\ RdIdle
  /\ OvIdle

NzAnalyze ==
  /\ nzOp = "none"
  /\ nzOp' = "analyze"
  /\ nzOut' = analyzeConfigSchema(nzRaw)
  /\ UNCHANGED <<nzRaw, nzFirst, ctlVars, ptVars, rdVars, ovVars>>

\* analyzeConfigSchema called again, on the schema of the analysis it
\* returned
NzReanalyze ==
  /\ nzOp = "analyze"
  /\ nzOp' = "reanalyze"
  /\ nzFirst' = nzOut
  /\ nzOut' = analyzeConfigSchema(nzOut.schema)
  /\ UNCHANGED <<nzRaw, ctlVars, ptVars, rdVars, ovVars>>

NormNext == NzAnalyze \/ NzReanalyze
NormSpec == NzInit /\ [][NormNext]_vars

\* ------------------------------------------------------------ form renderer
\* What the renderer puts on the page: a notice, a group or a control, at
\* the node (or the entry) it stands for, with the path it hands to onPatch
\* when it is a control.
Shown(kind, at, path) == [kind |-> kind, at |-> at, path |-> path]

\* the controls: what calls onPatch
Controls ==
  {"arrayAdd", "arrayRemove", "select", "checkbox", "number", "text",
   "mapAdd", "mapRename", "mapRemove"}

\* pathKey(path), part_002:298-300, over paths of keys and indices: the
\* indices are left out
renderKey(path) ==
  LET names == SelectSeq(path, LAMBDA seg : ~seg.num)
  IN pathKey([j \in 1..Len(names) |-> names[j].k])

RECURSIVE renderNode(_, _, _, _)
RECURSIVE renderMapField(_, _, _, _, _)

\* renderMapField(params), part_002:321-413
renderMapField(schema, value, path, unsupported, reservedKeys) ==
  LET own == Spread(OrEmptyObj(value)).props
      keys == (DOMAIN own) \ reservedKeys
  IN {Shown("mapAdd", path, path)}
     \cup UNION {{Shown("mapRename", Append(path, K(k)), path),
                  Shown("mapRemove", Append(path, K(k)), path)}
                   \cup renderNode(schema, own[k], Append(path, K(k)),
                                   unsupported) :
                   k \in keys}

\* renderNode(params), part_002:64-261
renderNode(schema, value, path, unsupported) ==
  LET type == schemaType(schema)
      key == renderKey(path)
      entries == SchemaEntries(OrEmptyObj(PropGet(schema, "properties")))
      additional == PropGet(schema, "additionalProperties")
      hasMap == Truthy(additional) /\ IsObjectLike(additional)
      held == Truthy(value) /\ IsObjectLike(value)
      items == PropGet(schema, "items")
      itemSchema == IF IsArray(items) THEN ArrGet(items, 0) ELSE items
      arr == IF IsArray(value) THEN value.elems ELSE <<>>
      asObject ==
        IF entries = <<>> /\ ~hasMap THEN {}
        ELSE {Shown("group", path, path)}
             \cup UNION {renderNode(entries[j].value,
                                    IF held THEN PropGet(value, entries[j].key)
                                    ELSE Undef,
                                    Append(path, K(entries[j].key)),
                                    unsupported) :
                           j \in 1..Len(entries)}
             \cup (IF hasMap
                   THEN renderMapField(additional,
                                       IF held THEN value ELSE EmptyObj,
                                       path, unsupported,
                                       {entries[j].key : j \in 1..Len(entries)})
                   ELSE {})
      asArray ==
        {Shown("arrayAdd", path, path)}
        \cup UNION {{Shown("arrayRemove", Append(path, I(j - 1)), path)}
                     \cup (IF Truthy(itemSchema)
                           THEN renderNode(itemSchema, arr[j],
                                           Append(path, I(j - 1)), unsupported)
                           ELSE {}) :
                      j \in {i \in 1..Len(arr) : arr[i].t # "hole"}}
  IN IF key \in unsupported THEN {Shown("notice", path, path)}
     ELSE IF \/ Truthy(PropGet(schema, "anyOf"))
             \/ Truthy(PropGet(schema, "oneOf"))
             \/ Truthy(PropGet(schema, "allOf"))
     THEN {Shown("notice", path, path)}
     ELSE IF type = Str("object") THEN asObject
     ELSE IF type = Str("array") THEN asArray
     ELSE IF Truthy(PropGet(schema, "enum")) THEN {Shown("select", path, path)}
     ELSE IF type = Str("boolean") THEN {Shown("checkbox", path, path)}
     ELSE IF type \in {Str("number"), Str("integer")}
     THEN {Shown("number", path, path)}
     ELSE IF type = Str("string") THEN {Shown("text", path, path)}
     ELSE {Shown("unsupportedType", path, path)}

\* renderConfigForm(props), part_002:29-62; the order of the fields on the
\* page is left out
renderConfigForm(schema, value, unsupportedPaths) ==
  LET held == OrEmptyObj(value)
      entries == SchemaEntries(PropGet(schema, "properties"))
      unsupported == {unsupportedPaths[j] : j \in DOMAIN unsupportedPaths}
  IN IF ~Truthy(schema) THEN {Shown("schemaUnavailable", <<>>, <<>>)}
     ELSE IF \/ schemaType(schema) # Str("object")
             \/ ~Truthy(PropGet(schema, "properties"))
     THEN {Shown("unsupportedSchema", <<>>, <<>>)}
     ELSE UNION {renderNode(entries[j].value, PropGet(held, entries[j].key),
                            <<K(entries[j].key)>>, unsupported) :
                   j \in 1..Len(entries)}

\* a[0].localeCompare(b[0]) over the property names the schemas use: their
\* place in lexicographic order
LexRank == [k \in {"list", "map", "mixed", "mode"} |->
              CASE k = "list" -> 1 [] k = "map" -> 2 [] k = "mixed" -> 3
                [] OTHER -> 4]

\* hintForPath(path, hints)?.order ?? 0, part_002:293-296 and 41-42
hintOrder(hints, key) == IF key \in DOMAIN hints THEN hints[key] ELSE 0

\* the keys of the root's properties as renderConfigForm sorts them
\* (part_002:39-45): by the order their hint gives, then by name
sortedKeys(schema, hints) ==
  LET entries == SchemaEntries(PropGet(schema, "properties"))
  IN SortSeq([j \in 1..Len(entries) |-> entries[j].key],
             LAMBDA a, b :
               \/ hintOrder(hints, a) < hintOrder(hints, b)
               \/ hintOrder(hints, a) = hintOrder(hints, b)
                    /\ LexRank[a] < LexRank[b])

\* the keys of an object's properties as renderNode maps them
\* (part_002:95-96, 106): as Object.entries gives them
mappedKeys(schema) ==
  LET entries == SchemaEntries(OrEmptyObj(PropGet(schema, "properties")))
  IN [j \in 1..Len(entries) |-> entries[j].key]

RECURSIVE SchemaFor(_, _)
\* the schema that the renderer hands down for the value at path: of a
\* property, of an entry of the map, of an element of the array
SchemaFor(schema, path) ==
  IF path = <<>> THEN schema
  ELSE LET seg == Head(path)
           properties == OrEmptyObj(PropGet(schema, "properties"))
       IN SchemaFor(IF seg.num THEN ItemSchemaOf(PropGet(schema, "items"))
                    ELSE IF seg.k \in DOMAIN properties.props
                    THEN properties.props[seg.k]
                    ELSE PropGet(schema, "additionalProperties"),
                    Tail(path))

\* the order of the properties of every object on the page: of the root as
\* renderConfigForm sorts them, of a group as renderNode maps them
pageOrder(schema, hints, out) ==
  (IF \E e \in out : e.kind \in {"schemaUnavailable", "unsupportedSchema"}
   THEN {}
   ELSE {[at |-> <<>>, keys |-> sortedKeys(schema, hints)]})
  \cup {[at |-> e.path, keys |-> mappedKeys(SchemaFor(schema, e.path))] :
          e \in {x \in out : x.kind = "group"}}

\* schemas for the renderer: one it can show in full, one whose property
\* `map` is an open map with a declared property, and root objects that
\* also carry a union
RenderSchemas ==
  { Obj([type |-> Str("object"),
         properties |->
           Obj([mixed |-> Obj([type |-> Str("boolean")]),
                mode |-> Obj([enum |-> Arr(<<Str("a"), Str("b")>>)]),
                list |-> Obj([type |-> Str("array"),
                              items |-> Obj([type |-> Str("number")])]),
                map |-> Obj([type |-> Str("object"),
                             properties |->
                               Obj([mode |-> Obj([type |-> Str("string")])]),
                             additionalProperties |->
                               Obj([type |-> Str("string")])])])]),
    Obj([type |-> Str("object"),
         properties |->
           Obj([mode |-> Obj([type |-> Str("string")]),
                map |-> Obj([type |-> Str("object"),
                             additionalProperties |-> Bool(TRUE),
                             properties |->
                               Obj([mode |-> Obj([type |-> Str("string")])])])])]) }
  \cup { Obj([type |-> Str("object"),
              properties |->
                Obj([mixed |-> Obj([enum |-> Arr(<<Num("1"), Num("2")>>)]),
                     mode |-> Obj([type |-> Str("boolean"),
                                   enum |-> Arr(<<Bool(TRUE), Bool(FALSE)>>)]),
                     map |-> Obj([type |-> Str("object"),
                                  properties |->
                                    Obj([mixed |-> Obj([type |-> Str("boolean")]),
                                         list |-> Obj([type |-> Str("string")])])])])]) }
  \cup {Obj("type" :> Str("object")
            @@ "properties" :> Obj([mode |-> Obj([type |-> Str("string")])])
            @@ kw :> Arr(<<Obj([type |-> Str("string")]),
                           Obj([type |-> Str("number")])>>)) :
          kw \in UnionKeywords}

\* the UI hints handed to the renderer: none, an order for a property of the
\* root, an order for a property of the object `map`
RenderHints ==
  { NoHints,
    ("mode" :> 0 - 1),
    ("map.mixed" :> 1) }

\* the form values handed to the renderer
RenderValues ==
  { Null,
    Obj([mixed |-> Str("x")]),
    Obj([mixed |-> Str("x"), mode |-> Str("a"),
         list |-> Arr(<<Str("a")>>),
         map |-> Obj([mode |-> Str("a"), extra |-> Str("v")])]),
    Obj([map |-> Obj("mode" :> Str("a") @@ "extra" :> Str("v")
                     @@ "new-1" :> Str("w"))]) }

RdInit ==
  /\ CtlInit /\ ~client /\ hasStructuredClone /\ configSnapshot = NoSnapshot
  /\ PtIdle
  /\ nzRaw \in RawSchemas \cup RenderSchemas
  /\ nzOp = "none"
  /\ nzOut = NoAnalysis
  /\ nzFirst = NoAnalysis
  /\ RdIdle
  /\ OvIdle

\* the view renders the form: the schema and the unsupported paths are
\* those of the analysis of the raw schema
RdRender ==
  /\ nzOp = "analyze"
  /\ nzOp' = "render"
  /\ \E value \in RenderValues :
       /\ rdValue' = value
       /\ rdOut' = renderConfigForm(nzOut.schema, value, nzOut.unsupportedPaths)
  /\ \E hints \in RenderHints :
       /\ rdHints' = hints
       /\ rdOrder' = pageOrder(nzOut.schema, hints, rdOut')
  /\ UNCHANGED <<nzRaw, nzOut, nzFirst, rdEvent, ctlVars, ptVars, ovVars>>

RenderNext == NzAnalyze \/ RdRender
RenderSpec == RdInit /\ [][RenderNext]_vars

\* ----------------------------------------------- reading a tree, for claims
\* the value found by following path from n (undefined where nothing is)
RECURSIVE GetPath(_, _)
GetPath(n, path) ==
  IF path = <<>> THEN n ELSE GetPath(Child(n, Head(path)), Tail(path))

Prefix(path, k) == SubSeq(path, 1, k)

\* ------------------------------------------------- the controls' handlers
\* defaultValue(schema), part_002:272-291
defaultValue(schema) ==
  IF ~Truthy(schema) THEN Str("")
  ELSE IF PropGet(schema, "default").t # "undef" THEN PropGet(schema, "default")
  ELSE CASE schemaType(schema) = Str("object") -> EmptyObj
         [] schemaType(schema) = Str("array") -> EmptyArr
         [] schemaType(schema) = Str("boolean") -> Bool(FALSE)
         [] schemaType(schema) \in {Str("number"), Str("integer")} -> Num("0")
         [] OTHER -> Str("")

\* what every object inherits: names that `in` finds in an object that does
\* not hold them itself
ObjectPrototypeKeys ==
  {"constructor", "toString", "valueOf", "hasOwnProperty", "__proto__"}

\* InObject that looks at nothing
InObject_never(key, n) == FALSE
\* key in next
InObject(key, n) == key \in DOMAIN n.props \/ key \in ObjectPrototypeKeys

\* the keys that Add tries, in turn (part_002:353-358)
NewKeys == <<"new-1", "new-2", "new-3">>

\* a patch handed to onPatch, and a handler that returned without one
Patch(path, value) == [fired |-> TRUE, path |-> path, value |-> value]
NoPatch == [fired |-> FALSE, path |-> <<>>, value |-> Undef]

\* the texts a user types or picks: into a text field, a number field, the
\* key field of a map entry
TypedTexts == {"", "x"}
TypedNumbers == {"", "1"}
TypedKeys == {"", " ", " x ", "x", "mode", "extra", "constructor"}

\* what can be done to the control e: the options of a select by their
\* text, the two states of a checkbox, the texts typed, a click
EventInputs(e, schema) ==
  CASE e.kind = "select" ->
         LET options == PropGet(SchemaFor(schema, e.at), "enum").elems
         IN {StringOf(options[j]) : j \in DOMAIN options}
    [] e.kind = "checkbox" -> {"true", "false"}
    [] e.kind = "number" -> TypedNumbers
    [] e.kind = "text" -> TypedTexts
    [] e.kind = "mapRename" -> TypedKeys
    [] OTHER -> {""}

\* The handler of the control e run on the input: the call of onPatch it
\* makes, if any (part_002:145-148, 170-174, 192-193, 212-213, 228-232,
\* 250-251, 351-361, 376-384, 401-405).  schema and value are those of the
\* root.
handle(e, input, schema, value) ==
  LET here == GetPath(OrEmptyObj(value), e.path)
      arr == IF IsArray(here) THEN here.elems ELSE <<>>
      items == PropGet(SchemaFor(schema, e.path), "items")
      itemSchema == IF IsArray(items) THEN ArrGet(items, 0) ELSE items
      index == e.at[Len(e.at)].i
      \* the map's object, and its copy
      held == IF Truthy(here) /\ IsObjectLike(here) THEN here ELSE EmptyObj
      next == Spread(held)
      key == e.at[Len(e.at)].k
      nextKey == Trim(input)
      free == SelectSeq(NewKeys, LAMBDA k : ~InObject(k, next))
      mapSchema == PropGet(SchemaFor(schema, e.path), "additionalProperties")
  IN CASE e.kind = "arrayAdd" ->
            Patch(e.path,
                  Arr([j \in 1..Len(arr) |->
                         IF arr[j].t = "hole" THEN Undef ELSE arr[j]]
                      \o <<defaultValue(itemSchema)>>))
       [] e.kind = "arrayRemove" -> Patch(e.path, Splice(Arr(arr), index))
       [] e.kind = "select" -> Patch(e.path, Str(input))
       [] e.kind = "checkbox" -> Patch(e.path, Bool(input = "true"))
       [] e.kind = "number" ->
            Patch(e.path, IF input = "" THEN Undef ELSE Num(input))
       [] e.kind = "text" -> Patch(e.path, Str(input))
       [] e.kind = "mapAdd" ->
            Patch(e.path, PropSet(next, free[1], defaultValue(mapSchema)))
       [] e.kind = "mapRename" ->
            IF nextKey = "" \/ nextKey = key THEN NoPatch
            ELSE IF InObject(nextKey, next) THEN NoPatch
            ELSE Patch(e.path,
                       PropDelete(PropSet(next, nextKey, PropGet(next, key)),
                                  key))
       [] e.kind = "mapRemove" -> Patch(e.path, PropDelete(next, key))
       [] OTHER -> NoPatch

\* the user changes a control of the page, or clicks it
RdEvent ==
  /\ nzOp = "render"
  /\ nzOp' = "event"
  /\ \E e \in {x \in rdOut : x.kind \in Controls} :
       \E input \in EventInputs(e, nzOut.schema) :
         rdEvent' = [kind |-> e.kind, at |-> e.at, input |-> input]
                      @@ handle(e, input, nzOut.schema, rdValue)
  /\ UNCHANGED <<nzRaw, nzOut, nzFirst, rdValue, rdHints, rdOut, rdOrder,
                 ctlVars, ptVars, ovVars>>

\* the form rendered over a schema and changed through one of its controls
EvInit ==
  /\ CtlInit /\ ~client /\ hasStructuredClone /\ configSnapshot = NoSnapshot
  /\ PtIdle
  /\ nzRaw \in RenderSchemas
  /\ nzOp = "none"
  /\ nzOut = NoAnalysis
  /\ nzFirst = NoAnalysis
  /\ RdIdle
  /\ OvIdle

EventNext == NzAnalyze \/ RdRender \/ RdEvent
EventSpec == EvInit /\ [][EventNext]_vars

\* ------------------------------------------------- voice wake overlay
MaxSessions == 2   \* most transcripts shown in one run
MaxForwards == 3   \* most transcripts handed to the forwarder in one run
MaxQueued == 2     \* most dismiss animations awaiting their completion

\* the transcripts the recognizer hands over, and the texts a user types
Transcripts == {" ", "hi"}
EditedTexts == {"", "ok"}
ForwardConfigs == {[set |-> TRUE, enabled |-> e] : e \in BOOLEAN}

\* the controller and the runtime around it, as one value
Overlay ==
  [model |-> model, window |-> window, autoSendTask |-> autoSendTask,
   forwardConfig |-> forwardConfig, tasks |-> tasks, mainQueue |-> mainQueue,
   animations |-> animations, session |-> session, forwards |-> forwards]

\* the controller and the runtime become o
Becomes(o) ==
  /\ model' = o.model
  /\ window' = o.window
  /\ autoSendTask' = o.autoSendTask
  /\ forwardConfig' = o.forwardConfig
  /\ tasks' = o.tasks
  /\ mainQueue' = o.mainQueue
  /\ animations' = o.animations
  /\ session' = o.session
  /\ forwards' = o.forwards

\* self.autoSendTask?.cancel(): a task that has ended takes no notice
cancelAutoSend(o) ==
  IF o.autoSendTask # 0 /\ o.tasks[o.autoSendTask].state = "sleeping"
  THEN [o EXCEPT !.tasks[o.autoSendTask].cancelled = TRUE]
  ELSE o

\* present(), part_000:128-150: the panel is made if there is none and is
\* shown if it is not visible
present(o) == [o EXCEPT !.window = TRUE, !.model.isVisible = TRUE]

\* dismiss(reason:outcome:), part_000:102-121: the animation ends in a
\* completion handler that runs later
dismiss(o) ==
  LET c == [cancelAutoSend(o) EXCEPT !.model.isSending = FALSE,
                                     !.model.isEditing = FALSE]
  IN IF ~c.window THEN c ELSE [c EXCEPT !.animations = @ + 1]

\* sendNow(), part_000:79-100: the forwarder is handed the trimmed text and
\* the dismiss is given to the main queue for later
sendNow(o) ==
  LET c == [cancelAutoSend(o) EXCEPT !.model.isEditing = FALSE]
      text == Trim(c.model.text)
  IN IF ~(c.forwardConfig.set /\ c.forwardConfig.enabled) THEN dismiss(c)
     ELSE IF text = "" THEN dismiss(c)
     ELSE [c EXCEPT !.model.isSending = TRUE,
                    !.forwards = Append(@, [session |-> c.session,
                                            text |-> text]),
                    !.mainQueue = Append(@, [session |-> c.session])]

\* scheduleAutoSend(after:), part_000:244-251: the task sleeps, then calls
\* sendNow
scheduleAutoSend(o) ==
  IF ~(o.forwardConfig.set /\ o.forwardConfig.enabled) THEN o
  ELSE [o EXCEPT !.tasks = Append(@, [state |-> "sleeping",
                                      cancelled |-> FALSE,
                                      session |-> o.session]),
                 !.autoSendTask = Len(o.tasks) + 1]

\* showPartial(transcript:attributed:), part_000:36-47
showPartial(transcript) ==
  /\ session < MaxSessions
  /\ Becomes(present(
       [cancelAutoSend(Overlay) EXCEPT
          !.forwardConfig = NoForwardConfig,
          !.model.text = transcript,
          !.model.isFinal = FALSE,
          !.model.forwardEnabled = FALSE,
          !.model.isSending = FALSE,
          !.model.isEditing = FALSE,
          !.session = @ + 1]))
  /\ UNCHANGED <<ctlVars, ptVars, nzVars, rdVars>>

\* presentFinal(transcript:forwardConfig:delay:attributed:), part_000:49-60
presentFinal(transcript, config) ==
  /\ session < MaxSessions
  /\ Becomes(scheduleAutoSend(present(
       [cancelAutoSend(Overlay) EXCEPT
          !.forwardConfig = config,
          !.model.text = transcript,
          !.model.isFinal = TRUE,
          !.model.forwardEnabled = config.enabled,
          !.model.isSending = FALSE,
          !.model.isEditing = FALSE,
          !.session = @ + 1])))
  /\ UNCHANGED <<ctlVars, ptVars, nzVars, rdVars>>

\* userBeganEditing(), part_000:62-66: the label is tapped, or the text
\* view takes the focus
userBeganEditing ==
  /\ model.isVisible
  /\ Becomes([cancelAutoSend(Overlay) EXCEPT !.model.isSending = FALSE,
                                             !.model.isEditing = TRUE])
  /\ UNCHANGED <<ctlVars, ptVars, nzVars, rdVars>>

\* endEditing(), part_000:68-70
endEditing ==
  /\ model.isEditing
  /\ Becomes([Overlay EXCEPT !.model.isEditing = FALSE])
  /\ UNCHANGED <<ctlVars, ptVars, nzVars, rdVars>>

\* updateText(_:), part_000:72-77: the user types in the text view
updateText(text) ==
  /\ model.isEditing
  /\ Becomes([Overlay EXCEPT !.model.text = text, !.model.isSending = FALSE])
  /\ UNCHANGED <<ctlVars, ptVars, nzVars, rdVars>>

\* the user sends: the button, which is disabled while there is nothing to
\* forward to or a send is under way (part_000:300-322), or Return in the
\* text view, which is there while the text is edited (part_000:269-287)
SendPressed ==
  /\ model.isVisible
  /\ (model.forwardEnabled /\ ~model.isSending) \/ model.isEditing
  /\ Len(forwards) < MaxForwards
  /\ animations < MaxQueued
  /\ Becomes(sendNow(Overlay))
  /\ UNCHANGED <<ctlVars, ptVars, nzVars, rdVars>>

\* the host dismisses the overlay
DismissCalled ==
  /\ model.isVisible
  /\ animations < MaxQueued
  /\ Becomes(dismiss(Overlay))
  /\ UNCHANGED <<ctlVars, ptVars, nzVars, rdVars>>

\* The task of scheduleAutoSend goes on after its sleep (part_000:246-250):
\* `try? await Task.sleep` returns when the delay has elapsed, and also when
\* the task is cancelled, the error that the sleep throws being dropped by
\* `try?`; either way the next statement calls sendNow.
AutoSendWake(i) ==
  /\ tasks[i].state = "sleeping"
  /\ Len(forwards) < MaxForwards
  /\ animations < MaxQueued
  /\ Becomes(sendNow([Overlay EXCEPT !.tasks[i].state = "ended"]))
  /\ UNCHANGED <<ctlVars, ptVars, nzVars, rdVars>>

\* the closure that sendNow gave to asyncAfter runs (part_000:97-99)
DelayedDismiss ==
  /\ mainQueue # <<>>
  /\ animations < MaxQueued
  /\ Becomes(dismiss([Overlay EXCEPT !.mainQueue = Tail(@)]))
  /\ UNCHANGED <<ctlVars, ptVars, nzVars, rdVars>>

\* the completion handler of a dismiss animation runs (part_000:115-120)
AnimationDone ==
  /\ animations > 0
  /\ Becomes([Overlay EXCEPT !.animations = @ - 1,
                             !.model.isVisible = FALSE])
  /\ UNCHANGED <<ctlVars, ptVars, nzVars, rdVars>>

OverlayInit == Init /\ ~client /\ hasStructuredClone /\ configSnapshot = NoSnapshot

OverlayNext ==
  \/ \E transcript \in Transcripts : showPartial(transcript)
  \/ \E transcript \in Transcripts, config \in ForwardConfigs :
       presentFinal(transcript, config)
  \/ userBeganEditing
  \/ endEditing
  \/ \E text \in EditedTexts : updateText(text)
  \/ SendPressed
  \/ DismissCalled
  \/ \E i \in 1..Len(tasks) : AutoSendWake(i)
  \/ DelayedDismiss
  \/ AnimationDone

OverlaySpec == OverlayInit /\ [][OverlayNext]_vars

\* Walking path from the container n (addressed by segment i), some integer
\* segment addresses a non-sequence or some string segment a non-mapping.
\* An absent or null container is not a mismatch: the walk creates it.
RECURSIVE HasMismatch(_, _, _)
HasMismatch(n, path, i) ==
  LET seg == path[i]
  IN \/ seg.num /\ n.t # "arr"
     \/ ~seg.num /\ n.t # "obj"
     \/ /\ i < Len(path)
        /\ ~IsNullish(Child(n, seg))
        /\ HasMismatch(Child(n, seg), path, i + 1)

\* the walk of removePathValue reaches the container of the last segment
RECURSIVE ReachesParent(_, _, _)
ReachesParent(n, path, i) ==
  LET seg == path[i]
  IN \/ i = Len(path)
     \/ /\ IF seg.num THEN IsArray(n) ELSE IsObjectLike(n)
        /\ ~IsNullish(Child(n, seg))
        /\ ReachesParent(Child(n, seg), path, i + 1)

\* containers n (before) and m (after) differ at most in the slot seg:
\* same kind, same other keys with the same values, same other elements
\* (an array may have grown, by empty slots only)
SiblingsSame(n, m, seg) ==
  /\ m.t = n.t
  /\ m.a = n.a
  /\ IF seg.num
     THEN /\ m.props = n.props
          /\ Len(m.elems) >= Len(n.elems)
          /\ \A j \in 1..Len(m.elems) :
               j # seg.i + 1 =>
                 m.elems[j] = IF j <= Len(n.elems) THEN n.elems[j] ELSE Hole
     ELSE /\ m.elems = n.elems
          /\ (DOMAIN m.props) \ {seg.k} = (DOMAIN n.props) \ {seg.k}
          /\ \A x \in (DOMAIN n.props) \ {seg.k} : m.props[x] = n.props[x]

\* the container that the walk finds or creates at prefix k of path
Effective(tree, path, k) ==
  LET n == GetPath(tree, Prefix(path, k))
  IN IF k > 0 /\ IsNullish(n)
     THEN (IF path[k + 1].num THEN EmptyArr ELSE EmptyObj)
     ELSE n

\* ------------------------------------------------------------------ claims

\* the requests of one method that await their response
InFlight(method) == {i \in 1..Len(inflight) : inflight[i].method = method}

\* the tree that snapshot.config ?? {} denotes in the current state
SnapshotTree ==
  IF configSnapshot.config # NullRef THEN heap[configSnapshot.config]
  ELSE EmptyObj

\* C1: applyConfigSnapshot leaves a dirty form alone (the same object, with
\* the same content) and replaces a form that is not dirty by a new object
\* that is a copy of the new snapshot's config (of {} when the snapshot
\* carries no config).
C1_SnapshotKeepsDirtyForm ==
  [][ last'.op = "loadConfig.resolve" =>
        IF configFormDirty
        THEN /\ configForm' = configForm
             /\ heap'[configForm'] = heap[configForm]
        ELSE /\ configForm' # NullRef
             /\ configForm' # configSnapshot'.config
             /\ heap'[configForm'] =
                  (IF configSnapshot'.config # NullRef
                   THEN heap'[configSnapshot'.config]
                   ELSE EmptyObj) ]_vars

\* a snapshot has been applied over a dirty form that differs from it
C1_Witness ==
  /\ last.op = "loadConfig.resolve"
  /\ configFormDirty
  /\ configSnapshot.config # NullRef
  /\ heap[configForm] # heap[configSnapshot.config]

\* C2: a saveConfig called before an earlier saveConfig has settled is
\* dropped, so the requests of at most one saveConfig (its config.set, then
\* its reload) await a response.
C2_OneSaveAtATime ==
  Cardinality({i \in 1..Len(inflight) : inflight[i].viaSave}) <= 1

\* C3: at most one config.get awaits its response.
C3_OneLoadAtATime == Cardinality(InFlight("config.get")) <= 1

\* C4: loadConfigSchema called while configSchemaLoading is true changes
\* nothing and sends nothing; at most one config.schema request awaits its
\* response, and configSchemaLoading is true exactly while one does.
C4_SchemaGuard ==
  /\ [](/\ Cardinality(InFlight("config.schema")) <= 1
        /\ configSchemaLoading <=> InFlight("config.schema") # {})
  /\ [][ (last'.op = "loadConfigSchema" /\ configSchemaLoading) =>
           UNCHANGED <<connVars, snapshotVars, schemaVars, formVars, heapVars,
                       flagVars, projVars, configFormMode, lastError,
                       inflight>> ]_vars

\* loadConfigSchema has just been called while the schema request sent by
\* an earlier call still awaits its response, behind a later request
C4_Witness ==
  /\ last.op = "loadConfigSchema"
  /\ configSchemaLoading
  /\ Len(inflight) = 2
  /\ inflight[1].method = "config.schema"
  /\ inflight[2].method = "config.get"

\* C5: updateConfigFormValue sets the dirty flag and stores a new object.
\* With no form value yet, that object is the snapshot's config with value
\* written at path, every other top-level key being as in the snapshot.
\* With a form value, it is that form value (as cloneConfigObject copies it:
\* exactly, or through JSON where the runtime has no structuredClone) with
\* value written at path, whatever the snapshot holds.
C5_UpdateSeedsAndPatches ==
  [][ last'.op = "updateConfigFormValue" =>
        LET result == heap'[configForm']
            path == last'.path
            value == last'.value
        IN /\ configFormDirty'
           /\ configForm' # NullRef
           /\ configForm' # configSnapshot'.config
           /\ configForm = NullRef =>
                /\ result = setPathValue(SnapshotTree, path, value)
                /\ Len(path) > 0 =>
                     \A k \in (DOMAIN SnapshotTree.props) \ {path[1].k} :
                       /\ k \in DOMAIN result.props
                       /\ result.props[k] = SnapshotTree.props[k]
           /\ configForm # NullRef =>
                result = setPathValue(
                           IF hasStructuredClone THEN heap[configForm]
                           ELSE JsonOf(heap[configForm]),
                           path, value) ]_vars

\* the first patch has been written into a copy of a snapshot config that
\* has other keys, and they are still there
C5_Witness ==
  /\ last.op = "updateConfigFormValue"
  /\ nPatches = 1
  /\ last.path = <<K("b"), I(1), K("a")>>
  /\ last.value = Str("v")
  /\ configSnapshot.config # NullRef
  /\ heap[configSnapshot.config] =
       Obj("a" :> Str("x") @@ "b" :> Arr(<<Str("x")>>)
           @@ "slack" :> Obj([botToken |-> Str("xoxb")]))
  /\ heap[configForm] =
       Obj("a" :> Str("x")
           @@ "b" :> Arr(<<Str("x"), Obj("a" :> Str("v"))>>)
           @@ "slack" :> Obj([botToken |-> Str("xoxb")]))

\* C6: a patch writes into a new object: the snapshot's config and the form
\* value of before the patch are other objects than the new form value, and
\* hold after the patch what they held before it.
C6_PatchCopiesOnWrite ==
  [][ last'.op \in {"updateConfigFormValue", "removeConfigFormValue"} =>
        /\ configForm' # NullRef
        /\ configSnapshot.config # NullRef =>
             /\ configSnapshot'.config # configForm'
             /\ heap'[configSnapshot'.config] = heap[configSnapshot.config]
        /\ configForm # NullRef =>
             /\ prevForm' \notin {NullRef, configForm', configSnapshot'.config}
             /\ heap'[prevForm'] = heap[configForm] ]_vars

\* a patch has changed the form value, and the object of before the patch
\* and the snapshot's config are still what they were
C6_Witness ==
  /\ last.op = "updateConfigFormValue"
  /\ prevForm # NullRef
  /\ configSnapshot.config # NullRef
  /\ heap[prevForm] = heap[configSnapshot.config]
  /\ heap[configForm] # heap[prevForm]

\* C7: setPathValue, on a path that meets no type mismatch, stores value at
\* the end of path, creating each missing container on the way as a sequence
\* when the next segment is an integer and as a mapping when it is a string,
\* and leaves every key and index off the path unchanged.
C7_SetStoresValue ==
  (ptOp = "set" /\ Len(ptPath) > 0 /\ ~HasMismatch(ptTree, ptPath, 1)) =>
    /\ GetPath(ptOut, ptPath) = ptValue
    /\ \A k \in 0..(Len(ptPath) - 1) :
         SiblingsSame(Effective(ptTree, ptPath, k),
                      GetPath(ptOut, Prefix(ptPath, k)),
                      ptPath[k + 1])

\* set({}, ["a","b",0], v) has produced {a: {b: [v]}}
C7_Witness ==
  /\ ptOp = "set"
  /\ ptTree = EmptyObj
  /\ ptPath = <<K("a"), K("b"), I(0)>>
  /\ ptValue = Str("v")
  /\ ptOut = Obj("a" :> Obj("b" :> Arr(<<Str("v")>>)))

\* C8: removePathValue whose walk reaches the parent container removes
\* exactly the last segment: an index inside a sequence is spliced out (the
\* later elements move down by one), a key of a mapping is deleted, and
\* nothing else in the tree changes.
C8_RemoveExactly ==
  (ptOp = "remove" /\ Len(ptPath) > 0 /\ ReachesParent(ptTree, ptPath, 1)) =>
    LET n == Len(ptPath)
        lastKey == ptPath[n]
        before == GetPath(ptTree, Prefix(ptPath, n - 1))
        after == GetPath(ptOut, Prefix(ptPath, n - 1))
    IN /\ \A k \in 0..(n - 2) :
            SiblingsSame(GetPath(ptTree, Prefix(ptPath, k)),
                         GetPath(ptOut, Prefix(ptPath, k)),
                         ptPath[k + 1])
       /\ (lastKey.num /\ IsArray(before) /\ lastKey.i < Len(before.elems)) =>
            /\ after.t = "arr" /\ after.props = before.props
            /\ Len(after.elems) = Len(before.elems) - 1
            /\ \A j \in 1..Len(after.elems) :
                 after.elems[j] =
                   IF j < lastKey.i + 1 THEN before.elems[j] ELSE before.elems[j + 1]
       /\ (~lastKey.num /\ before.t = "obj") =>
            /\ after.t = "obj" /\ after.elems = before.elems
            /\ DOMAIN after.props = (DOMAIN before.props) \ {lastKey.k}
            /\ \A x \in DOMAIN after.props : after.props[x] = before.props[x]

\* remove(["a","b",0]) on {a: {b: ["x"]}} has produced {a: {b: []}}
C8_Witness ==
  /\ ptOp = "remove"
  /\ ptTree = Obj("a" :> Obj("b" :> Arr(<<Str("x")>>)))
  /\ ptPath = <<K("a"), K("b"), I(0)>>
  /\ ptOut = Obj("a" :> Obj("b" :> EmptyArr))

\* C9: setPathValue leaves the tree unchanged whenever a segment of the
\* path addresses a container of the wrong kind (an integer segment a
\* non-sequence, a string segment a non-mapping).
C9_MismatchIsNoOp ==
  (ptOp = "set" /\ Len(ptPath) > 0 /\ HasMismatch(ptTree, ptPath, 1)) =>
    ptOut = ptTree

\* C10: an empty path is a no-op for both operations, and removePathValue
\* through an absent or null intermediate container is a no-op.
C10_EmptyAndMissingNoOp ==
  /\ (ptOp # "none" /\ Len(ptPath) = 0) => ptOut = ptTree
  /\ (ptOp = "remove" /\ Len(ptPath) > 0
        /\ \E k \in 1..(Len(ptPath) - 1) :
             IsNullish(GetPath(ptTree, Prefix(ptPath, k)))) =>
       ptOut = ptTree

\* a removal whose second segment is read from a null container
C10_Witness ==
  /\ ptOp = "remove"
  /\ Len(ptPath) = 3
  /\ ptTree.t = "obj" /\ ~ptPath[1].num
  /\ ptPath[1].k \in DOMAIN ptTree.props
  /\ ptTree.props[ptPath[1].k] = Null

\* C11: when config.set fails, saveConfig stores the error text in lastError
\* and ends with configSaving false; it sends no config.get; and neither the
\* call nor the failure changes configFormDirty, configForm (the object and
\* what it holds) or configRaw.
C11_SaveFailureKeepsEdits ==
  [][ /\ last'.op = "saveConfig.reject" =>
           /\ lastError' = ErrorText
           /\ ~configSaving'
           /\ Len(inflight') = Len(inflight) - 1
           /\ Cardinality({i \in 1..Len(inflight') :
                             inflight'[i].method = "config.get"})
                = Cardinality(InFlight("config.get"))
      /\ last'.op \in {"saveConfig", "saveConfig.reject"} =>
           /\ UNCHANGED <<configFormDirty, configForm, configRaw>>
           /\ configForm # NullRef => heap'[configForm'] = heap[configForm]
    ]_vars

\* a save of an edited form has just failed, and the edits are still there
C11_Witness ==
  /\ last.op = "saveConfig.reject"
  /\ lastError = ErrorText
  /\ configFormDirty
  /\ configForm # NullRef
  /\ configSnapshot.config # NullRef
  /\ heap[configForm] # heap[configSnapshot.config]

\* C12: when config.set is acknowledged, saveConfig clears configFormDirty
\* and only then sends the config.get of its reload (none is sent by a save
\* before that), and configSaving is true for as long as the reload of a
\* save awaits its response.
C12_SaveThenReload ==
  /\ [][ /\ last'.op = "saveConfig.resolve" =>
              /\ ~configFormDirty'
              /\ (client /\ connected) =>
                   /\ Len(inflight') = Len(inflight)
                   /\ inflight'[Len(inflight')] =
                        Request("config.get", TRUE, Undef)
         /\ last'.op = "saveConfig" =>
              \A i \in 1..Len(inflight') :
                \/ ~(inflight'[i].viaSave /\ inflight'[i].method = "config.get")
                \/ (i <= Len(inflight) /\ inflight[i] = inflight'[i])
       ]_vars
  /\ []((\E i \in 1..Len(inflight) :
            inflight[i].viaSave /\ inflight[i].method = "config.get")
          => configSaving)

\* C13: a patch sets configFormDirty, and only the acknowledgement of a
\* config.set (a successful save, which then reloads) turns it from true to
\* false: no failed save, load, failed load, schema fetch or patch does.
C13_DirtyClearedOnlyBySave ==
  [][ /\ last'.op \in {"updateConfigFormValue", "removeConfigFormValue"} =>
           configFormDirty'
      /\ (configFormDirty /\ ~configFormDirty') =>
           last'.op = "saveConfig.resolve" ]_vars

\* a successful save has just cleared the flag that a patch had set
C13_Witness ==
  /\ last.op = "saveConfig.resolve"
  /\ nPatches > 0
  /\ configForm # NullRef
  /\ ~configFormDirty

\* C14: when config.get fails, loadConfig stores the error text in lastError
\* and leaves configSnapshot, configRaw, configValid, configIssues, configForm
\* (the object and what it holds), configFormDirty, the five channel forms
\* and their status texts as they were; configLoading is false once a
\* loadConfig has settled, whether config.get answered or failed.
C14_LoadFailureKeepsState ==
  [][ /\ last'.op = "loadConfig.reject" =>
           /\ lastError' = ErrorText
           /\ UNCHANGED <<snapshotVars, configForm, configFormDirty, projVars>>
           /\ configForm # NullRef => heap'[configForm'] = heap[configForm]
           /\ configSnapshot.config # NullRef =>
                heap'[configSnapshot'.config] = heap[configSnapshot.config]
      /\ last'.op \in {"loadConfig.resolve", "loadConfig.reject"} =>
           ~configLoading'
    ]_vars

\* a load has just failed over a snapshot that had filled the slack form and
\* the status texts, and over an edited form
C14_Witness ==
  /\ last.op = "loadConfig.reject"
  /\ lastError = ErrorText
  /\ configSnapshot.present
  /\ slackForm # FormValue(baseSlackForm)
  /\ slackConfigStatus = FormValue(Str("Config invalid."))
  /\ configFormDirty
  /\ ~configLoading

\* C15: while there is no client or it is not connected, loadConfig,
\* saveConfig and loadConfigSchema send nothing and change nothing: the
\* requests in flight, lastError, the three flags, the dirty flag, the form
\* (the object and what it holds), the snapshot fields, the schema fields
\* and the projections are what they were; and the loadConfig that a save
\* calls after its acknowledgement sends nothing either.
C15_NoClientNoOp ==
  [][ /\ ( /\ last'.op \in {"loadConfig", "saveConfig", "loadConfigSchema"}
           /\ (~client \/ ~connected) ) =>
           /\ UNCHANGED <<inflight, lastError, flagVars, configFormDirty,
                          configForm, snapshotVars, schemaVars, connVars,
                          configFormMode, projVars>>
           /\ configForm # NullRef => heap'[configForm'] = heap[configForm]
           /\ configSnapshot.config # NullRef =>
                heap'[configSnapshot'.config] = heap[configSnapshot.config]
      /\ ( /\ last'.op = "saveConfig.resolve"
           /\ (~client \/ ~connected) ) =>
           /\ Len(inflight') = Len(inflight) - 1
           /\ Cardinality({i \in 1..Len(inflight') :
                             inflight'[i].method = "config.get"})
                = Cardinality(InFlight("config.get"))
           /\ UNCHANGED <<configLoading, lastError>>
    ]_vars

\* saveConfig has just been called without a connection, over an edited
\* form, an earlier error and a schema fetch that still awaits its response
C15_Witness ==
  /\ last.op = "saveConfig"
  /\ ~connected
  /\ lastError = ErrorText
  /\ configFormDirty
  /\ configSchemaLoading
  /\ ~configSaving
  /\ inflight # <<>>

\* the section `name` of the snapshot's config in the current state
SectionIn(name) == PropGet(SnapshotTree, name)

\* the projection of the section `name` in the current state, and the one a
\* new state starts with
FormNow(name) ==
  CASE name = "telegram" -> telegramForm
    [] name = "discord" -> discordForm
    [] name = "slack" -> slackForm
    [] name = "signal" -> signalForm
    [] OTHER -> imessageForm

DefaultsOf(name) ==
  CASE name = "telegram" -> FormValue(baseTelegramForm)
    [] name = "discord" -> FormValue(baseDiscordForm)
    [] name = "slack" -> FormValue(baseSlackForm)
    [] name = "signal" -> FormValue(baseSignalForm)
    [] OTHER -> FormValue(baseIMessageForm)

\* no node of the projection f is null, undefined or an empty slot
RECURSIVE NeverNullish(_)
NeverNullish(f) ==
  /\ f[1] \notin {"null", "undef", "hole"}
  /\ f[1] \in {"obj", "arr"} => \A k \in DOMAIN f[2] : NeverNullish(f[2][k])

\* the projection f has the fields of the record b, each of the kind b has
SameShape(f, b) ==
  /\ f[1] = "obj"
  /\ DOMAIN f[2] = DOMAIN b[2]
  /\ \A k \in DOMAIN b[2] : f[2][k][1] = b[2][k][1]

\* the guilds of the snapshot's discord section whose channels are not a
\* map from names to channels
GuildsWithoutChannelMap ==
  LET guilds == PropGet(SectionIn("discord"), "guilds")
  IN IF guilds.t # "obj" THEN {}
     ELSE {g \in DOMAIN guilds.props :
             PropGet(guilds.props[g], "channels").t # "obj"}

\* C16: applyConfigSnapshot never raises; every projection it leaves has the
\* fields of the all-defaults record, each of its kind, and holds no null or
\* undefined anywhere; a section that is missing, null, not a record, or
\* whose every field is of a wrong type yields the all-defaults record (so a
\* config without slack yields the slack defaults); and a guild whose
\* channels are not a map is listed with no channels.
C16_TotalDefaulting ==
  last.op \in {"applyConfigSnapshot", "applyConfigSnapshot.throw"} =>
    /\ last.op = "applyConfigSnapshot"
    /\ \A name \in Sections :
         /\ SameShape(FormNow(name), DefaultsOf(name))
         /\ NeverNullish(FormNow(name))
         /\ ( \/ SectionIn(name).t # "obj"
              \/ SectionIn(name) = MalformedSection(name) ) =>
              FormNow(name) = DefaultsOf(name)
    /\ \A j \in DOMAIN discordForm[2].guilds[2] :
         LET guild == discordForm[2].guilds[2][j][2]
         IN guild.key[2] \in GuildsWithoutChannelMap =>
              guild.channels[2] = <<>>

\* what each config that a snapshot may carry projects to, the config being
\* {} when the snapshot carries none
ProjectedFrom ==
  [c \in {OrEmptyObj(res.config) : res \in AllResponses} |->
     [telegram |-> FormValue(TelegramFormOf(c)),
      discord |-> FormValue(DiscordFormOf(c)),
      slack |-> FormValue(SlackFormOf(c)),
      signal |-> FormValue(SignalFormOf(c)),
      imessage |-> FormValue(IMessageFormOf(c))]]

\* C17: every applyConfigSnapshot leaves the five channel forms that the new
\* snapshot's config projects to, and the five status texts that its valid
\* field gives, whether or not the form is dirty and whatever the forms and
\* texts were; updateConfigFormValue and removeConfigFormValue change none
\* of them.
C17_ProjectionsFollowSnapshot ==
  [][ /\ last'.op = "applyConfigSnapshot" =>
           /\ telegramForm' = ProjectedFrom[SnapshotTree'].telegram
           /\ discordForm' = ProjectedFrom[SnapshotTree'].discord
           /\ slackForm' = ProjectedFrom[SnapshotTree'].slack
           /\ signalForm' = ProjectedFrom[SnapshotTree'].signal
           /\ imessageForm' = ProjectedFrom[SnapshotTree'].imessage
           /\ \A j \in 1..Len(channelStatuses') :
                channelStatuses'[j]
                  = FormValue(ConfigStatusOf(configSnapshot'.valid))
      /\ last'.op \in {"updateConfigFormValue", "removeConfigFormValue"} =>
           UNCHANGED projVars
    ]_vars

\* a snapshot without slack has just been applied over a dirty form that
\* still holds the slack section of an earlier snapshot: the slack form is
\* back at its defaults and the telegram form is filled
C17_Witness ==
  /\ last.op = "applyConfigSnapshot"
  /\ configFormDirty
  /\ configForm # NullRef
  /\ PropGet(heap[configForm], "slack") # Undef
  /\ SectionIn("slack") = Undef
  /\ slackForm = DefaultsOf("slack")
  /\ telegramForm # DefaultsOf("telegram")

\* ---------------------------------------------------- claims: normalizer
Range(seq) == {seq[j] : j \in DOMAIN seq}

RECURSIVE SchemaNodes(_, _, _)
\* The nodes of a schema: the node itself, its properties, its item schema
\* (the first when several are given) and the schema of its additional
\* properties, at any depth; each with the fields that lead to it (at) and
\* the path that the normalizer gives it.
SchemaNodes(node, at, path) ==
  LET properties == PropGet(node, "properties")
      items == PropGet(node, "items")
      item == IF IsArray(items) THEN ArrGet(items, 0) ELSE items
      additional == PropGet(node, "additionalProperties")
  IN {[at |-> at, path |-> path, node |-> node]}
     \cup (IF node.t = "obj" /\ properties.t = "obj"
           THEN UNION {SchemaNodes(properties.props[k],
                                   at \o <<"properties", k>>, Append(path, k)) :
                         k \in DOMAIN properties.props}
           ELSE {})
     \cup (IF node.t = "obj" /\ item.t = "obj"
           THEN SchemaNodes(item, Append(at, "items"), Append(path, "*"))
           ELSE {})
     \cup (IF node.t = "obj" /\ additional.t = "obj"
           THEN SchemaNodes(additional, Append(at, "additionalProperties"),
                            Append(path, "*"))
           ELSE {})

RECURSIVE NodeAt(_, _)
\* the node that the fields `at` lead to
NodeAt(schema, at) ==
  IF at = <<>> THEN schema ELSE NodeAt(PropGet(schema, Head(at)), Tail(at))

\* the union keywords a node carries, and the variants under the one it
\* carries
KeywordsOf(node) ==
  IF node.t # "obj" THEN {}
  ELSE {kw \in UnionKeywords : Truthy(PropGet(node, kw))}
UnionVariants(node) == PropGet(node, CHOOSE kw \in KeywordsOf(node) : TRUE).elems

\* the string literals a variant stands for, whether it stands for null, and
\* whether it stands for nothing else
StringsOf(v) ==
  IF IsArray(PropGet(v, "enum"))
  THEN {e \in Range(PropGet(v, "enum").elems) : e.t = "str"}
  ELSE IF PropGet(v, "const").t = "str" THEN {PropGet(v, "const")}
  ELSE {}
IsNullVariant(v) ==
  \/ "const" \in DOMAIN v.props /\ PropGet(v, "const").t = "null"
  \/ IsArray(PropGet(v, "enum")) /\ Null \in Range(PropGet(v, "enum").elems)
  \/ PropGet(v, "type") = Str("null")
IsLiteralVariant(v) ==
  /\ v.t = "obj"
  /\ \/ /\ IsArray(PropGet(v, "enum"))
        /\ \A e \in Range(PropGet(v, "enum").elems) : e.t \in {"str", "null"}
     \/ "const" \in DOMAIN v.props /\ PropGet(v, "const").t \in {"str", "null"}
     \/ PropGet(v, "type") = Str("null")
IsNonLiteralVariant(v) ==
  /\ v.t = "obj"
  /\ ~IsArray(PropGet(v, "enum"))
  /\ "const" \notin DOMAIN v.props
  /\ PropGet(v, "type") # Str("null")

\* a union of string literals, with or without null variants
IsLiteralUnion(node) ==
  /\ Cardinality(KeywordsOf(node)) = 1
  /\ \A v \in Range(UnionVariants(node)) : IsLiteralVariant(v)
  /\ \E v \in Range(UnionVariants(node)) : StringsOf(v) # {}

\* C18: a union whose variants are string literals (const or enum) and null
\* variants only normalizes to one node whose enum lists every literal of
\* every variant once, whose nullable is true exactly when a variant stands
\* for null, and which carries no union keyword; nothing is reported as
\* unsupported for it, the node is what the analysis holds at its place, and
\* its path is not in the unsupported set of the analysis.
C18_LiteralUnionIsEnum ==
  nzOp = "analyze" =>
    \A r \in SchemaNodes(nzRaw, <<>>, <<>>) :
      IsLiteralUnion(r.node) =>
        LET out == normalizeSchemaNode(r.node, r.path)
            listed == PropGet(out.schema, "enum")
            literals == UNION {StringsOf(v) : v \in Range(UnionVariants(r.node))}
        IN /\ IsArray(listed)
           /\ Range(listed.elems) = literals
           /\ Len(listed.elems) = Cardinality(literals)
           /\ PropGet(out.schema, "nullable")
                = Bool(\E v \in Range(UnionVariants(r.node)) : IsNullVariant(v))
           /\ KeywordsOf(out.schema) = {}
           /\ out.unsupportedPaths = <<>>
           /\ NodeAt(nzOut.schema, r.at) = out.schema
           /\ pathLabel(r.path) \notin Range(nzOut.unsupportedPaths)

\* a schema has been analyzed whose array `list` has for items a union of a
\* literal, an enum that repeats it and null: two literals, one listed
C18_Witness ==
  /\ nzOp = "analyze"
  /\ \E r \in SchemaNodes(nzRaw, <<>>, <<>>) :
       /\ IsLiteralUnion(r.node)
       /\ r.path = <<"list", "*">>
       /\ Len(UnionVariants(r.node)) = 2
       /\ \A v \in Range(UnionVariants(r.node)) : StringsOf(v) = {Str("b")}
       /\ PropGet(NodeAt(nzOut.schema, r.at), "enum") = Arr(<<Str("b")>>)
       /\ PropGet(NodeAt(nzOut.schema, r.at), "nullable") = Bool(TRUE)

\* how many variants of a union are schemas of their own
NonLiteralCount(node) ==
  Cardinality({j \in 1..Len(UnionVariants(node)) :
                 IsNonLiteralVariant(UnionVariants(node)[j])})

\* the analyzed schema of the view test: a root object whose property
\* `mixed` is anyOf [string, number]
MixedUnion ==
  Obj("anyOf" :> Arr(<<Obj([type |-> Str("string")]),
                       Obj([type |-> Str("number")])>>))

\* C19: a union with two or more variants that are schemas of their own is
\* returned as it is, with its own path as the one unsupported path; the
\* analysis holds the raw node at its place and reports a non-empty
\* unsupported set, which contains the node's path when only property names
\* lead to it (`mixed` for the root object whose property `mixed` is anyOf
\* [string, number]).
C19_TwoNonLiteralsUnsupported ==
  nzOp = "analyze" =>
    \A r \in SchemaNodes(nzRaw, <<>>, <<>>) :
      (Cardinality(KeywordsOf(r.node)) = 1 /\ NonLiteralCount(r.node) >= 2) =>
        /\ normalizeSchemaNode(r.node, r.path)
             = Analysis(r.node, <<pathLabel(r.path)>>)
        /\ NodeAt(nzOut.schema, r.at) = r.node
        /\ nzOut.unsupportedPaths # <<>>
        /\ "*" \notin Range(r.path) =>
             pathLabel(r.path) \in Range(nzOut.unsupportedPaths)

\* the schema of the view test has been analyzed: `mixed` is the one
\* unsupported path and the union is still in place
C19_Witness ==
  /\ nzOp = "analyze"
  /\ nzRaw = Place(MixedUnion, "property")
  /\ nzOut.unsupportedPaths = <<"mixed">>
  /\ NodeAt(nzOut.schema, <<"properties", "mixed">>) = MixedUnion

C21_ReanalysisSamePaths ==
  nzOp = "reanalyze" =>
    Range(nzOut.unsupportedPaths) = Range(nzFirst.unsupportedPaths)

\* ------------------------------------------------- claims: saved text
\* C22: the form value that updateConfigFormValue or removeConfigFormValue
\* leaves, written as saveConfig writes it and parsed back, is a tree equal to
\* the form value.
C22_RoundTrip ==
  last.op \in {"updateConfigFormValue", "removeConfigFormValue"} =>
    JsonParse(JsonText(heap[configForm])) = heap[configForm]

\* the request that a call of saveConfig has just sent, if it sent one
SaveSends ==
  /\ last'.op = "saveConfig"
  /\ Len(inflight') = Len(inflight) + 1
Sent == inflight'[Len(inflight')]

\* the text that saveConfig's template makes of the form value, null
\* included
FormText ==
  IF configForm = NullRef THEN JsonText(Null) ELSE JsonText(heap[configForm])

\* C23: the raw parameter of the config.set that saveConfig sends is the
\* serialization of configForm whenever configFormMode is form, and configRaw
\* as it is whenever configFormMode is raw.
C23_RawFollowsMode ==
  [][SaveSends =>
       /\ Sent.method = "config.set"
       /\ configFormMode = "form" => Sent.raw = FormText
       /\ configFormMode = "raw" => Sent.raw = configRaw]_vars

\* C23, amended: the raw parameter is the serialization of configForm when
\* configFormMode is form and there is a form value, and configRaw as it is
\* otherwise: in raw mode, and in form mode while configForm is null.
C23_RawFollowsModeAndForm ==
  [][SaveSends =>
       /\ Sent.method = "config.set"
       /\ (configFormMode = "form" /\ configForm # NullRef)
            => Sent.raw = JsonText(heap[configForm])
       /\ (configFormMode = "raw" \/ configForm = NullRef)
            => Sent.raw = configRaw]_vars

\* a save has just been sent in form mode after an edit: the request carries
\* the text of the edited form value, which is not the raw text
C23_Witness ==
  /\ last.op = "saveConfig"
  /\ inflight # <<>>
  /\ inflight[Len(inflight)].method = "config.set"
  /\ configFormMode = "form"
  /\ configFormDirty
  /\ configForm # NullRef
  /\ inflight[Len(inflight)].raw = JsonText(heap[configForm])
  /\ inflight[Len(inflight)].raw # configRaw

\* ------------------------------------------- claims: edits during a save
\* C25: a patch made after saveConfig has sent config.set and before the
\* save and its reload have settled is not lost: once no request of the
\* save awaits its response any more, configForm is the form value that the
\* patch left and configFormDirty is true.
C25_LateEditKept ==
  (lateEdit.made /\ ~SaveUnderWay) =>
    /\ configFormDirty
    /\ configForm # NullRef
    /\ heap[configForm] = lateEdit.form

\* snapshot.config ?? {} of the snapshot applied last
SnapshotConfigTree ==
  IF configSnapshot.config = NullRef THEN EmptyObj
  ELSE heap[configSnapshot.config]

\* C26: in every state where a snapshot has been applied and configFormDirty
\* is false, configForm is a tree equal to the snapshot's config.
C26_CleanFormIsSnapshot ==
  (configSnapshot.present /\ ~configFormDirty) =>
    /\ configForm # NullRef
    /\ heap[configForm] = SnapshotConfigTree

\* ------------------------------------------ claims: overlapping requests
\* C27: once no request awaits its response, the snapshot applied last (and
\* with it the projections and a form value that is not dirty) is the
\* response to the config.get sent last, in whatever order the responses of
\* overlapping loads and reloads arrived: no older request's response has
\* been applied over it.
C27_NewestSnapshotWins ==
  inflight = <<>> => getOrder # "overtaken"

\* C28: in every state configLoading is true exactly when a config.get
\* awaits its response, and configSaving is true exactly when a config.set or
\* the reload that saveConfig sent after it awaits its response.
C28_FlagsFollowRequests ==
  /\ configLoading <=> InFlight("config.get") # {}
  /\ configSaving <=> SaveUnderWay

\* ---------------------------------------------------- claims: renderer
\* the name a node has in the unsupported set: the keys that lead to it,
\* joined, and "<root>" for the root (part_002:434)
renderLabel(path) == IF renderKey(path) = "" THEN "<root>" ELSE renderKey(path)

\* what tells the user to edit the raw text instead
Notices == {"notice", "unsupportedSchema", "schemaUnavailable"}

\* C29: a node whose path is in the unsupported set is shown as a notice and
\* nothing else, whatever its type: nothing but a notice stands at such a
\* node, and no control on the page patches a path at or below one.
C29_UnsupportedIsTerminal ==
  nzOp = "render" =>
    \A e \in rdOut :
      /\ renderLabel(e.at) \in Range(nzOut.unsupportedPaths)
           => e.kind \in Notices
      /\ e.kind \in Controls =>
           \A k \in 0..Len(e.path) :
             renderLabel(Prefix(e.path, k)) \notin Range(nzOut.unsupportedPaths)

\* an object node that allows any additional property
IsOpenMap(node) ==
  /\ node.t = "obj"
  /\ KeywordsOf(node) = {}
  /\ schemaType(node) = Str("object")
  /\ PropGet(node, "additionalProperties") = Bool(TRUE)

\* the path of keys that the renderer gives the node the normalizer names
\* by path
KeysOf(path) == [j \in 1..Len(path) |-> K(path[j])]

\* C30: an object node whose additionalProperties is true has its own path
\* in the unsupported set; its declared properties are normalized all the
\* same, and the renderer shows every declared property whose own path is
\* not in the unsupported set: a group or a control stands at its path.
C30_OpenMapKeepsProperties ==
  nzOp = "render" =>
    \A r \in SchemaNodes(nzRaw, <<>>, <<>>) :
      (IsOpenMap(r.node) /\ "*" \notin Range(r.path)) =>
        /\ pathLabel(r.path) \in Range(nzOut.unsupportedPaths)
        /\ \A k \in DOMAIN OrEmptyObj(PropGet(r.node, "properties")).props :
             LET child == PropGet(r.node, "properties").props[k]
                 own == Append(r.path, k)
             IN /\ NodeAt(nzOut.schema, r.at \o <<"properties", k>>)
                     = normalizeSchemaNode(child, own).schema
                /\ pathLabel(own) \notin Range(nzOut.unsupportedPaths) =>
                     \E e \in rdOut :
                       /\ e.at = KeysOf(own)
                       /\ e.kind \in Controls \cup {"group"}


\* ------------------------------------------- claims: degenerate unions
\* the one variant of a union that is a schema of its own
TheNonLiteral(node) ==
  CHOOSE v \in Range(UnionVariants(node)) : IsNonLiteralVariant(v)

\* a union under one keyword with exactly one variant that is a schema of
\* its own, whatever literal and null variants stand beside it
IsDegenerateUnion(node) ==
  Cardinality(KeywordsOf(node)) = 1 /\ NonLiteralCount(node) = 1

\* the fields that lead to the node that Place puts into a schema
PlacedAt(where) ==
  CASE where = "root" -> <<>>
    [] where = "property" -> <<"properties", "mixed">>
    [] where = "items" -> <<"properties", "list", "items">>
    [] OTHER -> <<"additionalProperties">>

\* C31: a union with exactly one non-literal variant normalizes to what that
\* variant normalizes to at the same path, with nullable set to true, and
\* reports exactly the unsupported paths that the variant reports; the
\* analysis holds that node at the union's place, and the whole analysis
\* reports the unsupported paths it reports for the schema that has the
\* variant where the union stands.
C31_DegenerateUnionIsVariant ==
  nzOp = "analyze" =>
    /\ \A r \in SchemaNodes(nzRaw, <<>>, <<>>) :
         IsDegenerateUnion(r.node) =>
           LET out == normalizeSchemaNode(r.node, r.path)
               alone == normalizeSchemaNode(TheNonLiteral(r.node), r.path)
           IN /\ out.schema = PropSet(alone.schema, "nullable", Bool(TRUE))
              /\ out.unsupportedPaths = alone.unsupportedPaths
              /\ NodeAt(nzOut.schema, r.at) = out.schema
    /\ \A where \in Placements :
         LET u == NodeAt(nzRaw, PlacedAt(where))
         IN (nzRaw = Place(u, where) /\ IsDegenerateUnion(u)) =>
              nzOut.unsupportedPaths
                = analyzeConfigSchema(Place(TheNonLiteral(u), where))
                    .unsupportedPaths

\* the property `mixed` is oneOf [const "a", object with a property]: the
\* analysis holds the object there, nullable, its property normalized, and
\* reports nothing
C31_Witness ==
  /\ nzOp = "analyze"
  /\ nzRaw = Place(Obj("oneOf" :> Arr(<<Obj([const |-> Str("a")]),
                     Obj([type |-> Str("object"),
                          properties |->
                            Obj([mode |-> Obj([type |-> Str("string")])])])>>)),
                   "property")
  /\ PropGet(NodeAt(nzOut.schema, <<"properties", "mixed">>), "type")
       = Str("object")
  /\ PropGet(NodeAt(nzOut.schema, <<"properties", "mixed">>), "nullable")
       = Bool(TRUE)
  /\ KeywordsOf(NodeAt(nzOut.schema, <<"properties", "mixed">>)) = {}
  /\ nzOut.unsupportedPaths = <<>>


\* ------------------------------------------------- claims: array nodes
\* a node that says it is an array and is handled as one: its type is
\* "array", alone or in a list of types, and it carries no union keyword (a
\* node that carries one is handled as a union, part_002:436-441)
IsArrayNode(node) ==
  /\ node.t = "obj"
  /\ KeywordsOf(node) = {}
  /\ LET type == PropGet(node, "type")
     IN \/ type = Str("array")
        \/ IsArray(type) /\ type.elems # <<>>
             /\ \A j \in 1..Len(type.elems) :
                  type.elems[j] \in {Str("array"), Str("null")}

\* the item schema an array node declares: the first when it gives a list
FirstItem(node) ==
  LET items == PropGet(node, "items")
  IN IF items.t = "arr"
     THEN (IF items.elems = <<>> THEN Undef ELSE items.elems[1])
     ELSE items

\* the node declares no item schema, or its item schema normalized under
\* the wildcard segment reports an unsupported path
ItemsUnsupported(node, path) ==
  \/ FirstItem(node).t # "obj"
  \/ normalizeSchemaNode(FirstItem(node), Append(path, "*")).unsupportedPaths
       # <<>>

\* the node lists its values itself and none of them is left without null
EnumIsEmpty(node) ==
  LET enum == PropGet(node, "enum")
  IN enum.t = "arr" /\ \A j \in 1..Len(enum.elems) : enum.elems[j].t = "null"

\* whether normalizing the node reports the node's own path, and whether
\* the analysis does (when only property names lead to the node: an array
\* or a map around it reports its own path instead)
ReportsOwnPath(r) ==
  pathLabel(r.path) \in Range(normalizeSchemaNode(r.node, r.path).unsupportedPaths)
AnalysisReports(r) == pathLabel(r.path) \in Range(nzOut.unsupportedPaths)

EntriesBefore == GetPath(OrEmptyObj(rdValue), rdEvent.path).props
EntriesAfter == rdEvent.value.props

\* the key of the map entry the control stands at
EntryKey(e) == e.at[Len(e.at)].k

\* the properties that the schema declares for the object at path
DeclaredKeys(path) ==
  DOMAIN OrEmptyObj(PropGet(SchemaFor(nzOut.schema, path), "properties")).props

\* C33: in a typed open map a rename hands a patch to onPatch only when the
\* trimmed new key is not empty, is not the old key and is no key of the
\* object, declared properties included; the patch of a rename holds the
\* entry's value under the new key, no longer holds the old key and holds
\* every other entry as it was; the patch of Add holds every entry as it
\* was and one key more; no entry of the map's list stands at a key that
\* the schema declares as a property.
C33_MapEntriesKept ==
  /\ (nzOp = "event" /\ rdEvent.kind = "mapRename" /\ rdEvent.fired) =>
       LET old == EntryKey(rdEvent)
           new == Trim(rdEvent.input)
       IN /\ new # ""
          /\ new # old
          /\ new \notin DOMAIN EntriesBefore
          /\ rdEvent.value.t = "obj"
          /\ DOMAIN EntriesAfter = ((DOMAIN EntriesBefore) \ {old}) \cup {new}
          /\ EntriesAfter[new] = EntriesBefore[old]
          /\ \A k \in (DOMAIN EntriesBefore) \ {old} :
               EntriesAfter[k] = EntriesBefore[k]
  /\ (nzOp = "event" /\ rdEvent.kind = "mapAdd") =>
       /\ rdEvent.fired
       /\ rdEvent.value.t = "obj"
       /\ DOMAIN EntriesBefore \subseteq DOMAIN EntriesAfter
       /\ Cardinality(DOMAIN EntriesAfter) = Cardinality(DOMAIN EntriesBefore) + 1
       /\ \A k \in DOMAIN EntriesBefore : EntriesAfter[k] = EntriesBefore[k]
  /\ nzOp \in {"render", "event"} =>
       \A e \in rdOut :
         e.kind \in {"mapRename", "mapRemove"} =>
           EntryKey(e) \notin DeclaredKeys(e.path)

\* the key of the entry `extra` of the map {mode, extra, new-1} has been
\* changed to " x ": the patch holds its value under `x`, and the other two
\* entries
C33_Witness ==
  /\ nzOp = "event"
  /\ rdEvent.kind = "mapRename"
  /\ rdEvent.fired
  /\ rdEvent.input = " x "
  /\ rdEvent.path = <<K("map")>>
  /\ DOMAIN EntriesBefore = {"mode", "extra", "new-1"}
  /\ "mode" \in DeclaredKeys(rdEvent.path)
  /\ rdEvent.value
       = Obj("mode" :> Str("a") @@ "x" :> Str("v") @@ "new-1" :> Str("w"))


\* ------------------------------------------------ claims: field order
\* the order that the hints give the property k of the object at path `at`
\* (0 when they give none)
OrderOf(at, k) == hintOrder(rdHints, renderKey(Append(at, K(k))))

\* C34: in every object on the page, the root or a group at any depth, a
\* property whose hint gives a smaller order stands before a property whose
\* hint gives a larger one, a property without a hint counting as order 0.
C34_OrderFollowsHints ==
  nzOp = "render" =>
    \A o \in rdOrder :
      \A i, j \in 1..Len(o.keys) :
        OrderOf(o.at, o.keys[i]) < OrderOf(o.at, o.keys[j]) => i < j


\* ----------------------------------------------- claims: enum controls
\* the values that the normalized schema lists for the node at path
EnumValues(path) ==
  LET listed == PropGet(SchemaFor(nzOut.schema, path), "enum")
  IN IF listed.t = "arr" THEN {listed.elems[j] : j \in DOMAIN listed.elems}
     ELSE {}

\* C35: the value that a select hands to onPatch is one of the values the
\* normalized schema lists for the node, of the same type as the one listed.
C35_EnumPatchIsMember ==
  (nzOp = "event" /\ rdEvent.kind = "select") =>
    /\ rdEvent.fired
    /\ rdEvent.value \in EnumValues(rdEvent.path)


\* ---------------------------------------------------------------- C36
\* the step in which the cancelled auto-send task i goes on after its sleep
CancelledTaskRuns(i) ==
  /\ i \in 1..Len(tasks)
  /\ tasks[i].state = "sleeping"
  /\ tasks[i].cancelled
  /\ tasks'[i].state = "ended"

\* C36: when an auto-send task that was cancelled during its sleep goes on,
\* it does not call sendNow: nothing is handed to the forwarder, no dismiss
\* is given to the main queue, no dismiss animation is started, and the
\* view model is left as it was.
C36_CancelledTaskDoesNothing ==
  [][(\E i \in 1..Len(tasks) : CancelledTaskRuns(i))
       => /\ forwards' = forwards
          /\ mainQueue' = mainQueue
          /\ animations' = animations
          /\ model' = model]_vars

\* ---------------------------------------------------------------- C37
\* the step in which the dismiss that sendNow scheduled for an earlier
\* session runs
StaleDismissRuns ==
  /\ mainQueue # <<>>
  /\ mainQueue' = Tail(mainQueue)
  /\ Head(mainQueue).session # session

\* C37: the delayed dismiss of a session that is no longer the current one
\* neither resets isSending or isEditing nor starts hiding the overlay.
C37_StaleDismissLeavesNewSession ==
  [][StaleDismissRuns
       => /\ model'.isSending = model.isSending
          /\ model'.isEditing = model.isEditing
          /\ model'.isVisible = model.isVisible
          /\ animations' = animations]_vars

\* ---------------------------------------------------------------- C38
\* C38: every text handed to the forwarder is handed over while an enabled
\* forward configuration is set and the trimmed text is not empty, and no
\* text of the same session was handed over before.
C38_ForwardedAtMostOnce ==
  [][forwards' # forwards
       => /\ forwardConfig.set /\ forwardConfig.enabled
          /\ Trim(model.text) # ""
          /\ \A k \in 1..Len(forwards) : forwards[k].session # session]_vars

====
